---- MODULE Spec2Model ----
(***************************************************************************)
(* Verification model of the seller-collection tool: main and the bounded  *)
(* fan-out of process_sellers (main.py), the login, link and product       *)
(* fetching of the two scraping agents (rapras_scraper.py,                 *)
(* yahoo_scraper.py), the session store they use (session_manager.py),     *)
(* the title classifier (anime_filter.py) and the CSV export               *)
(* (csv_exporter.py).                                                      *)
(***************************************************************************)
EXTENDS Integers, Sequences, FiniteSets, TLC

\* ---------------------------------------------------------------- bounds
\* Largest seller_links list handed to process_sellers.
MaxSellers == 4

\* ------------------------------------------------------ program constants
MAX_CONCURRENT_SELLERS == 3
\* self._max_retries of the two agents
rapras_max_retries == 3
yahoo_max_retries == 3

VARIABLES
    \* ---- process_sellers (main.py)
    seller_links,   \* the input list: a sequence of seller link ids
    semaphore,      \* asyncio.Semaphore value (free permits)
    scraper_lock,   \* asyncio.Lock: TRUE when held
    upc,            \* position of each process_one_seller unit
    fetched,        \* per unit: how its fetch_seller_products call ended
    completed,      \* per unit: what the unit's coroutine produced
    ppc,            \* position of process_sellers itself
    retval,         \* what the caller of process_sellers has received
    \* ---- login() of one agent (rapras_scraper.py / yahoo_scraper.py)
    agent,          \* "rapras" or "yahoo": the agent whose login() runs
    lpc,            \* position inside login()
    attempt,        \* the for-loop variable (0-based)
    login_result,   \* "running", "True" or the name of the raised error
    session_file,   \* session store: per service the stored file's content
    handles,        \* playwright, browser, context, page: TRUE when set
    ctx_cookies,    \* cookie set held by the agent's browser context
    proxy_obs,      \* what _verify_proxy_connection has observed so far
    \* ---- history of the login() call
    attempts_started,  \* number of loop iterations begun
    session_checks, \* number of session_exists calls
    proxy_checks,   \* number of _verify_proxy_connection calls
    entry_call,     \* credential-entry steps executed in this call
    entry_attempt,  \* credential-entry steps executed in this attempt
    sleeps,         \* the asyncio.sleep delays of _retry_with_backoff
    failures,       \* how each failed attempt ended, in order
    save_calls,     \* the save_session calls made: <<service, cookies>>
    store_access,   \* the SessionManager calls made: <<method, service>>
    success_via,    \* which validation found the agent logged in: "none",
                    \* "restore" (after a restoration) or "fresh"
    close_calls,    \* the close() calls made on the agents, in order
    \* ---- fetch_seller_products (yahoo_scraper.py)
    fpc,            \* position inside fetch_seller_products
    fetch_attempt,  \* its for-loop variable (0-based)
    fetch_result,   \* "running", "seller_data" or the name of the raised error
    last_exception, \* the local last_exception ("None" before any failure)
    fetch_cause,    \* __cause__ of the raised error ("None" when none raised)
    fetch_started,  \* number of loop iterations begun
    fetch_errors,   \* how each failed attempt ended, in order
    fetch_sleeps,   \* the asyncio.sleep delays of the call, in order
    \* ---- main (main.py)
    mpc,            \* position inside main
    args,           \* the command line: start date, end date, min price
    constructed,    \* the agents main has constructed
    step_log,       \* the steps main has begun and ended, in order
    main_error,     \* the exception on its way out of main ("None": none)
    main_result,    \* "running", "returned", "exit" or the propagated error
    \* ---- AnimeFilter.filter_sellers (anime_filter.py)
    sellers,        \* the input list: per seller its product titles
    apc,            \* position inside filter_sellers
    si,             \* index of the seller being classified
    ti,             \* index of the title being checked
    is_anime_seller,\* the flag of the seller being classified
    filtered,       \* the list filter_sellers is building
    tool_calls,     \* indices of the current seller's titles handed to the tool
    verdicts,       \* how is_anime_title ended for each title of that seller
    filter_result,  \* "running", "returned" or the name of the raised error
    \* ---- AnimeFilter._parse_gemini_response
    response,       \* the reply text handed to the parser
    parsed,         \* <<>> before the parser has run, then <<its result>>
    \* ---- SessionManager (session_manager.py), with its files as bytes
    store,          \* per session file path: whether it exists, and its bytes
    store_ret,      \* the last SessionManager call and how it ended
    last_saved,     \* per service: what the calls so far have stored
    \* ---- CSVExporter (csv_exporter.py)
    export_arg,     \* the sellers argument of the export calls
    export_ret,     \* the last export call, how it ended and what it wrote
    \* ---- RaprasScraper.fetch_seller_links (rapras_scraper.py)
    kpc,            \* position inside fetch_seller_links
    links_call,     \* its arguments and the agent's state when it was called
    navigations,    \* number of page.goto calls it has made
    links_result,   \* "running", "returned" or the name of the raised error
    results_table,  \* the rows of the table the aggregation page shows
    links_found,    \* the list fetch_seller_links has returned
    \* ---- close() of one agent, step by step
    cpc,            \* position inside close(): "idle", the step, or "done"
    releases,       \* the release steps executed, in order
    close_log,      \* per ended close() call: handles before and after, outcome
    in_flight       \* the exception on its way out of the caller of close()

pvars == <<seller_links, semaphore, scraper_lock, upc, fetched, completed,
          ppc, retval>>

lvars == <<agent, lpc, attempt, login_result, session_file, handles,
          ctx_cookies, proxy_obs>>

hvars == <<attempts_started, session_checks, proxy_checks, entry_call,
          entry_attempt, sleeps, failures, save_calls, store_access, success_via>>

fvars == <<fpc, fetch_attempt, fetch_result, last_exception, fetch_cause,
          fetch_started, fetch_errors, fetch_sleeps>>

mvars == <<mpc, args, constructed, step_log, main_error, main_result>>

avars == <<sellers, apc, si, ti, is_anime_seller, filtered, tool_calls,
          verdicts, filter_result>>

rvars == <<response, parsed>>

svars == <<store, store_ret, last_saved>>

evars == <<export_arg, export_ret>>

kvars == <<kpc, links_call, navigations, links_result, results_table,
          links_found>>

\* The components added to the model after main
cvars == <<cpc, releases, close_log, in_flight>>

zvars == <<svars, evars, kvars, cvars>>

xvars == <<fvars, mvars, avars, rvars, zvars>>

vars == <<pvars, lvars, hvars, close_calls, xvars>>

\* ------------------------------------------------------------ helpers
Units == 1..Len(seller_links)

\* Exceptions a fetch may raise that process_one_seller catches (main.py:117)
CaughtErrors == {"ConnectionError", "TimeoutError", "ValueError"}
\* An exception outside the except clause
OtherErrors == {"RuntimeError"}

\* Values a unit's coroutine can end with (and "pending" before it has ended)
NoValue == <<"NoValue">>
Pending == [kind |-> "pending", of |-> 0]
None == [kind |-> "None", of |-> 0]
Raised(e, link) == [kind |-> e, of |-> link]

\* The record fetch_seller_products returns for a seller link
SellerData(link) == [kind |-> "seller_data", of |-> link]

\* Units holding a semaphore permit / units whose fetch call is in flight
Admitted == {u \in Units : upc[u] \in {"admitted", "fetching"}}
Fetching == {u \in Units : upc[u] = "fetching"}
Settled == {u \in Units : upc[u] = "settled"}

\* asyncio.Semaphore: a permit can be taken when the value is positive
SemaphoreFreeMutant == TRUE
SemaphoreFree == semaphore > 0

\* asyncio.Lock: can be taken when not held
LockFreeMutant == TRUE
LockFree == ~scraper_lock

\* except (ConnectionError, TimeoutError, ValueError) -> return None
HandlerCatchesMutant(e) == TRUE
HandlerCatches(e) == e \in CaughtErrors

\* for result in completed_results: if result is not None: results.append(result)
FilterNotNoneMutant(s) == s
RECURSIVE FilterNotNone(_)
FilterNotNone(s) ==
    IF s = <<>> THEN <<>>
    ELSE IF Head(s) # None THEN <<Head(s)>> \o FilterNotNone(Tail(s))
         ELSE FilterNotNone(Tail(s))

\* asyncio.gather(*tasks) hands back its list once every task is done
GatherDoneMutant == \E u \in Units : upc[u] = "settled"
GatherDone == \A u \in Units : upc[u] = "settled"

GatherFailed == \E u \in Units : completed[u].kind \in OtherErrors

\* ------------------------------------------------------------ Init
PipelineInit ==
    /\ \E n \in 0..MaxSellers : seller_links = [i \in 1..n |-> i]
    /\ semaphore = MAX_CONCURRENT_SELLERS
    /\ scraper_lock = FALSE
    /\ upc = [u \in 1..Len(seller_links) |-> "start"]
    /\ fetched = [u \in 1..Len(seller_links) |-> "pending"]
    /\ completed = [u \in 1..Len(seller_links) |-> Pending]
    /\ ppc = "gathering"
    /\ retval = NoValue

\* process_sellers not running: an empty batch that has returned
PipelineIdle ==
    /\ seller_links = <<>>
    /\ semaphore = MAX_CONCURRENT_SELLERS
    /\ scraper_lock = FALSE
    /\ upc = <<>>
    /\ fetched = <<>>
    /\ completed = <<>>
    /\ ppc = "returned"
    /\ retval = <<>>

\* ------------------------------------------------------------ process_sellers
\* async with semaphore:  (entry)
AcquireSemaphore(u) ==
    /\ upc[u] = "start"
    /\ SemaphoreFree
    /\ semaphore' = semaphore - 1
    /\ upc' = [upc EXCEPT ![u] = "admitted"]
    /\ UNCHANGED <<seller_links, scraper_lock, fetched, completed, ppc, retval,
                   lvars, hvars, close_calls, xvars>>

\* async with scraper_lock:  (entry) followed by the call of
\* yahoo_scraper.fetch_seller_products(seller["link"]), which suspends
AcquireLock(u) ==
    /\ upc[u] = "admitted"
    /\ LockFree
    /\ scraper_lock' = TRUE
    /\ upc' = [upc EXCEPT ![u] = "fetching"]
    /\ UNCHANGED <<seller_links, semaphore, fetched, completed, ppc, retval,
                   lvars, hvars, close_calls, xvars>>

\* The fetch returns seller_data: the lock and the permit are released on the
\* way out and the unit's coroutine returns the record.
FetchReturns(u) ==
    /\ upc[u] = "fetching"
    /\ scraper_lock' = FALSE
    /\ semaphore' = semaphore + 1
    /\ fetched' = [fetched EXCEPT ![u] = "ok"]
    /\ completed' = [completed EXCEPT ![u] = SellerData(seller_links[u])]
    /\ upc' = [upc EXCEPT ![u] = "settled"]
    /\ UNCHANGED <<seller_links, ppc, retval,
                   lvars, hvars, close_calls, xvars>>

\* A unit whose failed fetch leaves the lock held
FetchRaisesMutant(u) ==
    /\ upc[u] = "fetching"
    /\ \E e \in CaughtErrors \cup OtherErrors :
          /\ fetched' = [fetched EXCEPT ![u] = e]
          /\ completed' = [completed EXCEPT ![u] =
                               IF HandlerCatches(e) THEN None
                               ELSE Raised(e, seller_links[u])]
    /\ semaphore' = semaphore + 1
    /\ upc' = [upc EXCEPT ![u] = "settled"]
    /\ UNCHANGED <<seller_links, scraper_lock, ppc, retval,
                   lvars, hvars, close_calls, xvars>>

\* The fetch raises e: the lock is released, then the except clause either
\* swallows e (the unit returns None) or lets it leave the coroutine.
FetchRaises(u) ==
    /\ upc[u] = "fetching"
    /\ \E e \in CaughtErrors \cup OtherErrors :
          /\ fetched' = [fetched EXCEPT ![u] = e]
          /\ completed' = [completed EXCEPT ![u] =
                               IF HandlerCatches(e) THEN None
                               ELSE Raised(e, seller_links[u])]
    /\ scraper_lock' = FALSE
    /\ semaphore' = semaphore + 1
    /\ upc' = [upc EXCEPT ![u] = "settled"]
    /\ UNCHANGED <<seller_links, ppc, retval,
                   lvars, hvars, close_calls, xvars>>

\* completed_results = await asyncio.gather(*tasks); the filter loop and the
\* return follow without a suspension point.
GatherReturns ==
    /\ ppc = "gathering"
    /\ GatherDone
    /\ ~GatherFailed
    /\ retval' = FilterNotNone([u \in Units |-> completed[u]])
    /\ ppc' = "returned"
    /\ UNCHANGED <<seller_links, semaphore, scraper_lock, upc, fetched, completed,
                   lvars, hvars, close_calls, xvars>>

\* gather re-raises the first exception a task ended with; the other tasks
\* are not cancelled and keep running.
GatherRaises ==
    /\ ppc = "gathering"
    /\ GatherFailed
    /\ ppc' = "raised"
    /\ UNCHANGED <<seller_links, semaphore, scraper_lock, upc, fetched, completed,
                   retval,
                   lvars, hvars, close_calls, xvars>>

\* ================================================================ login()
Services == {"rapras", "yahoo"}

\* Cookie sets a site can hand to the browser context
CookieSets == {"c1", "c2"}

\* Exceptions a browser step can raise inside the try block of login():
\* the built-in TimeoutError, or anything else caught by `except Exception`
StepErrors == {"TimeoutError", "Exception"}

\* The handles in the order _launch_browser creates them
PLAYWRIGHT == 1
BROWSER == 2
CONTEXT == 3
PAGE == 4
NoHandles == [h \in 1..4 |-> FALSE]

\* A close() call: who made it ("main", or "login" through _close_browser)
\* and on which agent
CloseCall(caller, a) == [by |-> caller, on |-> a]

MaxRetries(a) == IF a = "rapras" THEN rapras_max_retries ELSE yahoo_max_retries

\* 2**i
RECURSIVE Pow2(_)
Pow2(i) == IF i = 0 THEN 1 ELSE 2 * Pow2(i - 1)

\* self._retry_delays
retry_delays(a) ==
    IF a = "rapras" THEN [i \in 1..rapras_max_retries |-> Pow2(i)]
    ELSE <<2, 4, 8>>

\* _retry_with_backoff: delay = self._retry_delays[attempt]  (0-based index)
BackoffDelayMutant(a, att) == retry_delays(a)[att + 2]
BackoffDelay(a, att) == retry_delays(a)[att + 1]

\* SessionManager.session_exists
session_exists(svc) == session_file[svc] # "absent"

\* SessionManager.load_session: None when the file is missing, cannot be
\* parsed (JSONDecodeError) or cannot be read (OSError); UnicodeDecodeError,
\* which the method does not catch, when the bytes are no UTF-8 text; the
\* stored list otherwise
load_session(svc, read_ok) ==
    IF session_file[svc] \in {"absent", "corrupt"} \/ ~read_ok THEN "None"
    ELSE IF session_file[svc] = "undecodable" THEN "UnicodeDecodeError"
    ELSE session_file[svc]

\* How the try block of save_session can end: the file is written; OSError
\* before it is opened; OSError after open has truncated it, with the bytes
\* written so far cut anywhere or cut inside a character
WriteEndKinds == {"written", "not opened", "cut", "cut in a character"}

\* SessionManager.save_session: writes the file of that service only; an
\* OSError is logged and not raised
save_sessionMutant(svc, cookies, write_end) ==
    IF write_end = "written" THEN [s \in Services |-> cookies] ELSE session_file
save_session(svc, cookies, write_end) ==
    CASE write_end = "written" -> [session_file EXCEPT ![svc] = cookies]
      [] write_end = "not opened" -> session_file
      [] write_end = "cut" -> [session_file EXCEPT ![svc] = "corrupt"]
      [] write_end = "cut in a character" ->
             [session_file EXCEPT ![svc] = "undecodable"]

\* SessionManager.delete_session: unlinks the file of that service when it
\* exists; an OSError of unlink is logged and the file stays
delete_session(svc, unlinked) ==
    IF unlinked THEN [session_file EXCEPT ![svc] = "absent"] ELSE session_file

\* `if not cookies`
Falsy(cookies) == cookies \in {"None", "empty"}

\* _restore_session returns False without launching a browser: `if not
\* cookies`, or load_session raised and `except Exception` caught it
RestoreGivesUpMutant(cookies) == cookies = "None"
RestoreGivesUp(cookies) == Falsy(cookies) \/ cookies = "UnicodeDecodeError"

\* _launch_browser / _launch_browser_with_proxy: creates the handles that
\* are not set, in order; failing at step k leaves the later ones unset.
\* k = 0: nothing raised.
LaunchSteps(h) == {0} \cup {k \in 1..4 : ~h[k]}
Launched(h, k) == [i \in 1..4 |-> IF k = 0 \/ i < k THEN TRUE ELSE h[i]]

\* close(): page, context, browser, playwright in that order, each only when
\* set; the first step that raises ends it (the error is logged).
CloseSteps(h) == {0} \cup {k \in 1..4 : h[k]}
Closed(h, k) == [i \in 1..4 |-> IF k = 0 \/ i > k THEN FALSE ELSE h[i]]

\* The cookie set of a context created by new_context()
FreshCookies(h, k) == IF ~h[CONTEXT] /\ (k = 0 \/ k > CONTEXT) THEN "empty"
                      ELSE ctx_cookies

\* ---- _verify_proxy_connection
expected_ip == <<"164.70.96.2">>
Whitespace == {" ", "\n"}

\* Bodies the IP endpoint may answer with (None: no body)
IpBodies == {<<"None">>, <<>>, <<"164.70.96.2">>, <<" ", "164.70.96.2", "\n">>,
             <<"10.0.0.1">>, <<"164.70.96.2", " ", "x">>, <<"\n">>}

\* str.strip()
RECURSIVE StripLeft(_)
StripLeft(t) == IF t # <<>> /\ Head(t) \in Whitespace THEN StripLeft(Tail(t)) ELSE t
RECURSIVE StripRight(_)
StripRight(t) ==
    IF t # <<>> /\ t[Len(t)] \in Whitespace
    THEN StripRight(SubSeq(t, 1, Len(t) - 1)) ELSE t
Strip(t) == StripRight(StripLeft(t))

\* current_ip = ip_text.strip() if ip_text else ""
CurrentIp(ip_text) == IF ip_text = <<"None">> \/ ip_text = <<>> THEN <<>> ELSE Strip(ip_text)

\* if current_ip != expected_ip: raise ProxyAuthenticationError
IpMismatchMutant(body) == body # expected_ip
IpMismatch(body) == CurrentIp(body) # expected_ip

\* setup: the throwaway browser, context and page; reached: the test
\* endpoint; ip: the request of the IP endpoint and the read of its body
NoProxyObs == [setup |-> "pending", reached |-> "pending", ip |-> "not_tried",
               body |-> <<>>]

\* The service name an agent passes to the session store
ServiceNameMutant(a) == IF a = "rapras" THEN "yahoo" ELSE "rapras"
ServiceName(a) == a

\* for attempt in range(self._max_retries)
LoopContinuesMutant(a, att) == att <= MaxRetries(a)
LoopContinues(a, att) == att < MaxRetries(a)

\* ---- Init of a login() call
LoginInit ==
    /\ agent \in Services
    /\ lpc = "call"
    /\ attempt = 0
    /\ login_result = "running"
    /\ session_file \in
          [Services -> {"absent", "corrupt", "undecodable", "empty", "c1"}]
    /\ handles = NoHandles
    /\ ctx_cookies = "empty"
    /\ proxy_obs = NoProxyObs
    /\ attempts_started = 0
    /\ session_checks = 0
    /\ proxy_checks = 0
    /\ entry_call = {}
    /\ entry_attempt = {}
    /\ sleeps = <<>>
    /\ failures = <<>>
    /\ save_calls = <<>>
    /\ store_access = {}
    /\ success_via = "none"
    /\ close_calls = <<>>

\* No login() running
LoginIdle ==
    /\ agent = "rapras"
    /\ lpc = "idle"
    /\ attempt = 0
    /\ login_result = "running"
    /\ session_file = [svc \in Services |-> "absent"]
    /\ handles = NoHandles
    /\ ctx_cookies = "empty"
    /\ proxy_obs = NoProxyObs
    /\ attempts_started = 0
    /\ session_checks = 0
    /\ proxy_checks = 0
    /\ entry_call = {}
    /\ entry_attempt = {}
    /\ sleeps = <<>>
    /\ failures = <<>>
    /\ save_calls = <<>>
    /\ store_access = {}
    /\ success_via = "none"
    /\ close_calls = <<>>

\* ---- the ways a step of login() ends
\* login() ends by raising err (or returning True)
Ends(err) ==
    /\ lpc' = "done"
    /\ login_result' = err

\* The type login() raises when the last attempt ended with exception e
RaisedForMutant(e) == "LoginError"
RaisedFor(e) == IF e = "TimeoutError" THEN "TimeoutError" ELSE "LoginError"

\* Where login() goes when the proxy check has raised
AfterProxyErrorMutant == lpc' = "attempt_start" /\ login_result' = login_result
AfterProxyError == Ends("ProxyAuthenticationError")

\* if await self.is_logged_in(): return True   (after a restoration)
RestoreSucceedsMutant == lpc' = "launch" /\ login_result' = login_result
RestoreSucceeds == Ends("True")

\* if attempt < self._max_retries - 1
AttemptsLeftMutant(a, att) == att < MaxRetries(a)
AttemptsLeft(a, att) == att < MaxRetries(a) - 1

\* except TimeoutError / except Exception: back off and go on when attempts
\* are left, raise otherwise
Handler(e) ==
    /\ failures' = Append(failures, e)
    /\ IF AttemptsLeft(agent, attempt)
       THEN lpc' = "backoff" /\ login_result' = login_result
       ELSE Ends(RaisedFor(e))

\* A browser step inside the try block: it succeeds and login() goes on at
\* `next`, or it raises and the except clauses take over
TryStep(next) ==
    \/ /\ lpc' = next
       /\ UNCHANGED <<login_result, failures>>
    \/ \E e \in StepErrors : Handler(e)

\* A credential-entry step is recorded when it is executed
Entry(name) ==
    /\ entry_call' = entry_call \cup {name}
    /\ entry_attempt' = entry_attempt \cup {name}

\* ---- login(): the steps
hist_but_proxy == <<attempts_started, session_checks, entry_call, entry_attempt,
                   sleeps, failures, save_calls, store_access, success_via>>

\* login() is called; the marketplace agent first verifies the proxy
LoginCall ==
    /\ lpc = "call"
    /\ IF agent = "yahoo"
       THEN lpc' = "proxy_setup" /\ proxy_checks' = proxy_checks + 1
       ELSE lpc' = "attempt_start" /\ UNCHANGED proxy_checks
    /\ UNCHANGED <<agent, attempt, login_result, session_file, handles,
                   ctx_cookies, proxy_obs, hist_but_proxy, pvars, close_calls, xvars>>

\* _verify_proxy_connection: start playwright, launch, new_context, new_page
ProxySetup ==
    /\ lpc = "proxy_setup"
    /\ \/ /\ proxy_obs' = [proxy_obs EXCEPT !.setup = "ok"]
          /\ lpc' = "proxy_test"
          /\ UNCHANGED login_result
       \/ /\ proxy_obs' = [proxy_obs EXCEPT !.setup = "failed"]
          /\ AfterProxyError
    /\ UNCHANGED <<agent, attempt, session_file, handles, ctx_cookies, hvars, pvars, close_calls, xvars>>

\* temp_page.goto("https://www.google.com")
ProxyTestEndpoint ==
    /\ lpc = "proxy_test"
    /\ \/ /\ proxy_obs' = [proxy_obs EXCEPT !.reached = "yes"]
          /\ lpc' = "proxy_ip_goto"
          /\ UNCHANGED login_result
       \/ /\ proxy_obs' = [proxy_obs EXCEPT !.reached = "no"]
          /\ AfterProxyError
    /\ UNCHANGED <<agent, attempt, session_file, handles, ctx_cookies, hvars, pvars, close_calls, xvars>>

\* temp_page.goto("https://inet-ip.info/ip"): an error here is logged and the
\* check goes on to its end
ProxyGotoIp ==
    /\ lpc = "proxy_ip_goto"
    /\ \/ /\ lpc' = "proxy_ip_read"
          /\ UNCHANGED proxy_obs
       \/ /\ proxy_obs' = [proxy_obs EXCEPT !.ip = "failed"]
          /\ lpc' = "attempt_start"
    /\ UNCHANGED <<agent, attempt, login_result, session_file, handles,
                   ctx_cookies, hvars, pvars, close_calls, xvars>>

\* temp_page.text_content("body"), strip, comparison with the expected IP
ProxyReadIp ==
    /\ lpc = "proxy_ip_read"
    /\ \/ /\ proxy_obs' = [proxy_obs EXCEPT !.ip = "failed"]
          /\ lpc' = "attempt_start"
          /\ UNCHANGED login_result
       \/ \E body \in IpBodies :
             /\ proxy_obs' = [proxy_obs EXCEPT !.ip = "obtained", !.body = body]
             /\ IF IpMismatch(body) THEN AfterProxyError
                ELSE lpc' = "attempt_start" /\ UNCHANGED login_result
    /\ UNCHANGED <<agent, attempt, session_file, handles, ctx_cookies, hvars, pvars, close_calls, xvars>>

\* The loop head and the session_exists test of an attempt
AttemptStart ==
    /\ lpc = "attempt_start"
    /\ LoopContinues(agent, attempt)
    /\ attempts_started' = attempts_started + 1
    /\ entry_attempt' = {}
    /\ session_checks' = session_checks + 1
    /\ lpc' = IF session_exists(ServiceName(agent)) THEN "restore" ELSE "launch"
    /\ store_access' = store_access \cup {<<"session_exists", ServiceName(agent)>>}
    /\ UNCHANGED <<agent, attempt, login_result, session_file, handles,
                   ctx_cookies, proxy_obs, proxy_checks, entry_call, sleeps,
                   failures, save_calls, success_via, pvars, close_calls, xvars>>

\* The loop has run out: raise LoginError(... Invalid credentials ...)
LoopExhausted ==
    /\ lpc = "attempt_start"
    /\ ~LoopContinues(agent, attempt)
    /\ Ends("LoginError")
    /\ UNCHANGED <<agent, attempt, session_file, handles, ctx_cookies,
                   proxy_obs, hvars, pvars, close_calls, xvars>>

\* _restore_session: load the cookies, launch, add_cookies, goto; every
\* exception is caught and makes it return False
RestoreSession ==
    /\ lpc = "restore"
    /\ \E read_ok \in BOOLEAN :
         LET cookies == load_session(ServiceName(agent), read_ok) IN
         IF RestoreGivesUp(cookies)
         THEN lpc' = "launch" /\ UNCHANGED <<handles, ctx_cookies>>
         ELSE \E k \in LaunchSteps(handles) :
                /\ handles' = Launched(handles, k)
                /\ IF k # 0
                   THEN lpc' = "launch" /\ ctx_cookies' = FreshCookies(handles, k)
                   ELSE \E added \in BOOLEAN, nav \in BOOLEAN :
                          /\ ctx_cookies' = IF added THEN cookies
                                            ELSE FreshCookies(handles, k)
                          /\ lpc' = IF added /\ nav THEN "restore_validate"
                                    ELSE "launch"
    /\ store_access' = store_access \cup {<<"load_session", ServiceName(agent)>>}
    /\ UNCHANGED <<agent, attempt, login_result, session_file, proxy_obs,
                   attempts_started, session_checks, proxy_checks, entry_call,
                   entry_attempt, sleeps, failures, save_calls, success_via,
                   pvars, close_calls, xvars>>

\* A login() that deletes the stored session when it fails validation
RestoreValidateMutant ==
    /\ lpc = "restore_validate"
    /\ \/ /\ RestoreSucceeds
          /\ success_via' = "restore"
          /\ UNCHANGED <<handles, close_calls, session_file, store_access>>
       \/ /\ lpc' = "launch"
          /\ IF agent = "rapras"
             THEN /\ \E k \in CloseSteps(handles) : handles' = Closed(handles, k)
                  /\ close_calls' = Append(close_calls, CloseCall("login", agent))
             ELSE UNCHANGED <<handles, close_calls>>
          /\ session_file' = delete_session(ServiceName(agent), TRUE)
          /\ store_access' = store_access \cup {<<"delete_session", ServiceName(agent)>>}
          /\ UNCHANGED <<login_result, success_via>>
    /\ UNCHANGED <<agent, attempt, ctx_cookies, proxy_obs,
                   attempts_started, session_checks, proxy_checks, entry_call,
                   entry_attempt, sleeps, failures, save_calls, pvars, xvars>>

\* is_logged_in() after a restoration: True returns True from login();
\* otherwise the aggregator agent closes the restored browser and both go on
\* to a fresh login
RestoreValidate ==
    /\ lpc = "restore_validate"
    /\ \/ /\ RestoreSucceeds
          /\ success_via' = "restore"
          /\ UNCHANGED <<handles, close_calls>>
       \/ /\ lpc' = "launch"
          /\ IF agent = "rapras"
             THEN /\ \E k \in CloseSteps(handles) : handles' = Closed(handles, k)
                  /\ close_calls' = Append(close_calls, CloseCall("login", agent))
             ELSE UNCHANGED <<handles, close_calls>>
          /\ UNCHANGED <<login_result, success_via>>
    /\ UNCHANGED <<agent, attempt, session_file, ctx_cookies, proxy_obs,
                   attempts_started, session_checks, proxy_checks, entry_call,
                   entry_attempt, sleeps, failures, save_calls, store_access, pvars, xvars>>

\* _launch_browser() / _launch_browser_with_proxy()
LaunchBrowser ==
    /\ lpc = "launch"
    /\ \E k \in LaunchSteps(handles) :
         /\ handles' = Launched(handles, k)
         /\ ctx_cookies' = FreshCookies(handles, k)
         /\ IF k = 0 THEN lpc' = "goto_login" /\ UNCHANGED <<login_result, failures>>
            ELSE \E e \in StepErrors : Handler(e)
    /\ UNCHANGED <<agent, attempt, session_file, proxy_obs, attempts_started,
                   session_checks, proxy_checks, entry_call, entry_attempt,
                   sleeps, save_calls, store_access, success_via, pvars, close_calls, xvars>>

step_frame == <<agent, attempt, session_file, handles, proxy_obs,
               attempts_started, session_checks, proxy_checks, sleeps,
               save_calls, store_access, success_via, pvars, close_calls, xvars>>

\* page.goto(login url)
GotoLogin ==
    /\ lpc = "goto_login"
    /\ TryStep("fill")
    /\ UNCHANGED <<step_frame, ctx_cookies, entry_call, entry_attempt>>

\* _fill_credentials(username, password)
FillCredentials ==
    /\ lpc = "fill" /\ agent = "rapras"
    /\ Entry("fill_credentials")
    /\ TryStep("click")
    /\ UNCHANGED <<step_frame, ctx_cookies>>

\* _fill_phone_number(phone_number)
FillPhoneNumber ==
    /\ lpc = "fill" /\ agent = "yahoo"
    /\ Entry("phone_number")
    /\ TryStep("click")
    /\ UNCHANGED <<step_frame, ctx_cookies>>

\* _click_login_button(): the site may set cookies in the context
ClickLoginButton ==
    /\ lpc = "click" /\ agent = "rapras"
    /\ Entry("click_login")
    /\ TryStep("validate")
    /\ ctx_cookies' \in CookieSets \cup {ctx_cookies}
    /\ UNCHANGED step_frame

\* _click_send_sms_button()
ClickSendSms ==
    /\ lpc = "click" /\ agent = "yahoo"
    /\ Entry("click_send_sms")
    /\ TryStep("sms_prompt")
    /\ UNCHANGED <<step_frame, ctx_cookies>>

\* _prompt_for_sms_code(): TimeoutError after 180 s, ValueError when empty
PromptForSmsCode ==
    /\ lpc = "sms_prompt"
    /\ Entry("sms_prompt")
    /\ TryStep("fill_sms")
    /\ UNCHANGED <<step_frame, ctx_cookies>>

\* _fill_sms_code(sms_code): fills the code and clicks the login button
FillSmsCode ==
    /\ lpc = "fill_sms"
    /\ Entry("click_login")
    /\ TryStep("goto_auctions")
    /\ ctx_cookies' \in CookieSets \cup {ctx_cookies}
    /\ UNCHANGED step_frame

\* page.goto(auctions url): an exception is logged and swallowed
GotoAuctions ==
    /\ lpc = "goto_auctions"
    /\ lpc' = "validate"
    /\ UNCHANGED <<step_frame, login_result, ctx_cookies, entry_call,
                   entry_attempt, failures>>

\* is_logged_in() after the fresh login: on True the context's cookies are
\* read and saved and login() returns True; on False the attempt has failed
Validate ==
    /\ lpc = "validate"
    /\ \/ /\ \E e \in StepErrors : Handler(e)
          /\ UNCHANGED <<session_file, save_calls, store_access, success_via, attempt>>
       \/ /\ \E write_end \in WriteEndKinds :
               session_file' = save_session(ServiceName(agent), ctx_cookies, write_end)
          /\ save_calls' = Append(save_calls, <<ServiceName(agent), ctx_cookies>>)
          /\ store_access' = store_access \cup {<<"save_session", ServiceName(agent)>>}
          /\ Ends("True")
          /\ success_via' = "fresh"
          /\ UNCHANGED <<failures, attempt>>
       \/ /\ failures' = Append(failures, "validation")
          /\ IF AttemptsLeft(agent, attempt)
             THEN lpc' = "backoff" /\ UNCHANGED attempt
             ELSE lpc' = "attempt_start" /\ attempt' = attempt + 1
          /\ UNCHANGED <<login_result, session_file, save_calls, store_access, success_via>>
    /\ UNCHANGED <<agent, handles, ctx_cookies, proxy_obs, attempts_started,
                   session_checks, proxy_checks, entry_call, entry_attempt,
                   sleeps, pvars, close_calls, xvars>>

\* _retry_with_backoff(attempt), then the next loop iteration
RetryWithBackoff ==
    /\ lpc = "backoff"
    /\ sleeps' = Append(sleeps, BackoffDelay(agent, attempt))
    /\ attempt' = attempt + 1
    /\ lpc' = "attempt_start"
    /\ UNCHANGED <<agent, login_result, session_file, handles, ctx_cookies,
                   proxy_obs, attempts_started, session_checks, proxy_checks,
                   entry_call, entry_attempt, failures, save_calls, store_access,
                   success_via, pvars, close_calls, xvars>>

LoginNext ==
    \/ LoginCall
    \/ ProxySetup
    \/ ProxyTestEndpoint
    \/ ProxyGotoIp
    \/ ProxyReadIp
    \/ AttemptStart
    \/ LoopExhausted
    \/ RestoreSession
    \/ RestoreValidate
    \/ LaunchBrowser
    \/ GotoLogin
    \/ FillCredentials
    \/ FillPhoneNumber
    \/ ClickLoginButton
    \/ ClickSendSms
    \/ PromptForSmsCode
    \/ FillSmsCode
    \/ GotoAuctions
    \/ Validate
    \/ RetryWithBackoff

PipelineNext ==
    \/ \E u \in Units : AcquireSemaphore(u)
    \/ \E u \in Units : AcquireLock(u)
    \/ \E u \in Units : FetchReturns(u)
    \/ \E u \in Units : FetchRaises(u)
    \/ GatherReturns
    \/ GatherRaises

\* ================================================== fetch_seller_products
\* for attempt in range(self._max_retries)
FetchLoopContinuesMutant(att) == att <= yahoo_max_retries
FetchLoopContinues(att) == att < yahoo_max_retries

\* No fetch_seller_products call made yet
FetchIdle ==
    /\ fpc = "call"
    /\ fetch_attempt = 0
    /\ fetch_result = "running"
    /\ last_exception = "None"
    /\ fetch_cause = "None"
    /\ fetch_started = 0
    /\ fetch_errors = <<>>
    /\ fetch_sleeps = <<>>

fetch_frame == <<pvars, agent, lpc, attempt, login_result, session_file,
                proxy_obs, hvars, close_calls, mvars, avars, rvars, zvars>>

\* except (TimeoutError, Exception) as e: last_exception = e; back off when
\* attempts are left, otherwise the loop is over
FetchHandler(e) ==
    /\ last_exception' = e
    /\ fetch_errors' = Append(fetch_errors, e)
    /\ IF fetch_attempt < yahoo_max_retries - 1
       THEN fpc' = "f_backoff" /\ UNCHANGED fetch_attempt
       ELSE fpc' = "f_loop" /\ fetch_attempt' = fetch_attempt + 1
    /\ UNCHANGED <<fetch_result, fetch_cause>>

\* A browser step inside the try block of fetch_seller_products
FetchTryStep(next) ==
    \/ /\ fpc' = next
       /\ UNCHANGED <<fetch_attempt, fetch_result, last_exception, fetch_cause,
                      fetch_errors>>
    \/ \E e \in StepErrors : FetchHandler(e)

\* fetch_seller_products is called (no login() in progress):
\* last_exception = None
FetchCall ==
    /\ fpc = "call"
    /\ lpc \in {"call", "done"}
    /\ fpc' = "f_loop"
    /\ last_exception' = "None"
    /\ UNCHANGED <<fetch_attempt, fetch_result, fetch_cause, fetch_started,
                   fetch_errors, fetch_sleeps, handles, ctx_cookies, fetch_frame>>

\* The loop head, and `if not self.page`
FetchAttemptStart ==
    /\ fpc = "f_loop"
    /\ FetchLoopContinues(fetch_attempt)
    /\ fetch_started' = fetch_started + 1
    /\ fpc' = IF ~handles[PAGE] THEN "f_launch" ELSE "f_goto"
    /\ UNCHANGED <<fetch_attempt, fetch_result, last_exception, fetch_cause,
                   fetch_errors, fetch_sleeps, handles, ctx_cookies, fetch_frame>>

\* The loop has run out: raise ConnectionError(error_msg) from last_exception
FetchLoopExhausted ==
    /\ fpc = "f_loop"
    /\ ~FetchLoopContinues(fetch_attempt)
    /\ fetch_result' = "ConnectionError"
    /\ fetch_cause' = last_exception
    /\ fpc' = "f_done"
    /\ UNCHANGED <<fetch_attempt, last_exception, fetch_started, fetch_errors,
                   fetch_sleeps, handles, ctx_cookies, fetch_frame>>

\* await self._launch_browser_with_proxy()
FetchLaunch ==
    /\ fpc = "f_launch"
    /\ \E k \in LaunchSteps(handles) :
         /\ handles' = Launched(handles, k)
         /\ ctx_cookies' = FreshCookies(handles, k)
         /\ IF k = 0
            THEN /\ fpc' = "f_goto"
                 /\ UNCHANGED <<fetch_attempt, fetch_result, last_exception,
                                fetch_cause, fetch_errors>>
            ELSE \E e \in StepErrors : FetchHandler(e)
    /\ UNCHANGED <<fetch_started, fetch_sleeps, fetch_frame>>

\* await self.page.goto(seller_url, timeout=self._timeout)
FetchGoto ==
    /\ fpc = "f_goto"
    /\ FetchTryStep("f_extract")
    /\ UNCHANGED <<fetch_started, fetch_sleeps, handles, ctx_cookies, fetch_frame>>

\* _extract_seller_name, _extract_product_titles and the return of the record
FetchExtract ==
    /\ fpc = "f_extract"
    /\ \/ /\ fetch_result' = "seller_data"
          /\ fpc' = "f_done"
          /\ UNCHANGED <<fetch_attempt, last_exception, fetch_cause, fetch_errors>>
       \/ \E e \in StepErrors : FetchHandler(e)
    /\ UNCHANGED <<fetch_started, fetch_sleeps, handles, ctx_cookies, fetch_frame>>

\* await self._retry_with_backoff(attempt), then the next loop iteration
FetchBackoff ==
    /\ fpc = "f_backoff"
    /\ fetch_sleeps' = Append(fetch_sleeps, BackoffDelay("yahoo", fetch_attempt))
    /\ fetch_attempt' = fetch_attempt + 1
    /\ fpc' = "f_loop"
    /\ UNCHANGED <<fetch_result, last_exception, fetch_cause, fetch_started,
                   fetch_errors, handles, ctx_cookies, fetch_frame>>

\* A login() of the marketplace agent that runs before the fetch is called
LoginBeforeFetch == fpc = "call" /\ LoginNext

FetchNext ==
    \/ LoginBeforeFetch
    \/ FetchCall
    \/ FetchAttemptStart
    \/ FetchLoopExhausted
    \/ FetchLaunch
    \/ FetchGoto
    \/ FetchExtract
    \/ FetchBackoff

\* ================================================================ at rest
\* main not running
NoArgs == [start_date |-> <<>>, end_date |-> <<>>, min_price |-> 0]

MainIdle ==
    /\ mpc = "idle"
    /\ args = NoArgs
    /\ constructed = {}
    /\ step_log = <<>>
    /\ main_error = "None"
    /\ main_result = "running"

\* filter_sellers not running
FilterIdle ==
    /\ sellers = <<>>
    /\ apc = "idle"
    /\ si = 0
    /\ ti = 0
    /\ is_anime_seller = FALSE
    /\ filtered = <<>>
    /\ tool_calls = <<>>
    /\ verdicts = <<>>
    /\ filter_result = "running"

\* No reply handed to the parser
ParserIdle ==
    /\ response = <<>>
    /\ parsed = <<>>

\* self.session_dir / f"{service_name}_session.json"
SessionFile(service_name) == <<"sessions", service_name, "_session.json">>

\* A path at which no file exists
Missing == [present |-> FALSE, bytes |-> <<>>]

\* None, as a value of the program
PyNone == <<"None", <<>>>>

\* No SessionManager call made, no session file looked at
StoreIdle ==
    /\ store = [f \in {SessionFile(svc) : svc \in Services} |-> Missing]
    /\ store_ret = [op |-> "none", service |-> "none", raised |-> "None",
                    oserror |-> FALSE, value |-> PyNone]
    /\ last_saved = [svc \in Services |-> [known |-> FALSE, value |-> PyNone]]

\* No export call made
NoExport == [op |-> "none", raised |-> "None", output_dir |-> FALSE, csv |-> <<>>,
             written |-> FALSE]
ExportIdle ==
    /\ export_arg = <<"list", <<>>>>
    /\ export_ret = NoExport

\* fetch_seller_links not called
NoLinksCall == [start_date |-> <<>>, end_date |-> <<>>, min_price |-> 0,
                page |-> FALSE, logged_in |-> FALSE]
LinksIdle ==
    /\ kpc = "idle"
    /\ links_call = NoLinksCall
    /\ navigations = 0
    /\ links_result = "running"
    /\ results_table = <<>>
    /\ links_found = <<>>

\* No close() followed step by step
CloseIdle ==
    /\ cpc = "idle"
    /\ releases = <<>>
    /\ close_log = <<>>
    /\ in_flight = "None"

\* The components added after main are at rest
RestIdle == StoreIdle /\ ExportIdle /\ LinksIdle /\ CloseIdle

\* ================================================================ main
\* Largest list fetch_seller_links hands to main
MaxLinksFound == 2

\* ---- parse_args
\* A date argument is a text of three '-'-separated numeric fields, each with
\* its value v and its number of digits w; <<>> is any other text
Field(value, width) == [v |-> value, w |-> width]
DateText(y, m, mw, dd, dw) == <<Field(y, 4), Field(m, mw), Field(dd, dw)>>

\* "2025/08/01", "2025-08-01", "2025-10-31", "2025-8-1", "2025-02-30"
ArgDates == {<<>>, DateText(2025, 8, 2, 1, 2), DateText(2025, 10, 2, 31, 2),
             DateText(2025, 8, 1, 1, 1), DateText(2025, 2, 2, 30, 2)}

MinPrices == {-1, 0}

IsLeap(y) == (y % 4 = 0 /\ y % 100 # 0) \/ y % 400 = 0
DaysInMonth(y, m) ==
    IF m \in {4, 6, 9, 11} THEN 30
    ELSE IF m = 2 THEN (IF IsLeap(y) THEN 29 ELSE 28)
    ELSE 31

\* The text names a day of the calendar
CalendarDate(t) ==
    /\ t[2].v \in 1..12
    /\ t[3].v \in 1..DaysInMonth(t[1].v, t[2].v)

\* datetime.strptime(text, "%Y-%m-%d") returns a date (otherwise ValueError):
\* %Y takes four digits, %m and %d one or two
StrptimeParses(t) ==
    /\ Len(t) = 3
    /\ t[1].w = 4 /\ t[2].w \in {1, 2} /\ t[3].w \in {1, 2}
    /\ CalendarDate(t)

\* The date strptime returns, as a number ordered like the dates
StrptimeValue(t) == t[1].v * 10000 + t[2].v * 100 + t[3].v

\* if start > end: parser.error(...)
StartAfterEndMutant(a) == StrptimeValue(a.start_date) >= StrptimeValue(a.end_date)
StartAfterEnd(a) == StrptimeValue(a.start_date) > StrptimeValue(a.end_date)

\* parse_args returns the namespace (otherwise parser.error exits with 2)
ParseArgsReturns(a) ==
    /\ StrptimeParses(a.start_date) /\ StrptimeParses(a.end_date)
    /\ ~StartAfterEnd(a)
    /\ ~(a.min_price < 0)

\* ---- main
Event(s, e) == [step |-> s, ev |-> e]

\* Exceptions of the steps main calls into the storage, analyzer and
\* aggregator modules
StepFailures == {"OSError", "RuntimeError"}

\* Every command line over the date texts and prices above
AllArgs == [start_date : ArgDates, end_date : ArgDates, min_price : MinPrices]

\* The command lines of the runs followed to their end: 2025-08-01 to
\* 2025-10-31, and the same dates swapped
RunArgs ==
    {a \in AllArgs : /\ a.min_price = 0
                     /\ {a.start_date, a.end_date} =
                           {DateText(2025, 8, 2, 1, 2), DateText(2025, 10, 2, 31, 2)}}

MainInit ==
    /\ mpc = "parse_args"
    /\ args \in AllArgs
    /\ constructed = {}
    /\ step_log = <<>>
    /\ main_error = "None"
    /\ main_result = "running"

\* await rapras_scraper.login(...) has returned or raised
LoginEndedMutant == TRUE
LoginEnded == lpc = "done"

\* login() raised: control leaves the try block
LoginRaisedMutant == FALSE
LoginRaised == login_result # "True"

\* if rapras_scraper: / if yahoo_scraper:   (finally block)
ShouldCloseMutant(a) == a \in {}
ShouldClose(a) == a \in constructed

\* A step of the try block raises e: except Exception logs and re-raises,
\* then the finally block runs
MainRaises(s, e) ==
    /\ step_log' = Append(step_log, Event(s, "raise"))
    /\ main_error' = e
    /\ mpc' = "finally_rapras"

\* return inside the try block (or its normal end): the finally block runs
MainReturns(s) ==
    /\ step_log' = Append(step_log, Event(s, "end"))
    /\ main_error' = main_error
    /\ mpc' = "finally_rapras"

\* process_sellers(seller_links, yahoo_scraper) is called with n links: it
\* creates the semaphore, the lock and the tasks and awaits gather
PipelineStart(n) ==
    /\ seller_links' = [i \in 1..n |-> i]
    /\ semaphore' = MAX_CONCURRENT_SELLERS
    /\ scraper_lock' = FALSE
    /\ upc' = [u \in 1..n |-> "start"]
    /\ fetched' = [u \in 1..n |-> "pending"]
    /\ completed' = [u \in 1..n |-> Pending]
    /\ ppc' = "gathering"
    /\ retval' = NoValue

main_frame == <<lvars, hvars, fvars, avars, rvars, zvars>>
mvars_but_pc == <<args, constructed, step_log, main_error, main_result>>

\* args = parse_args()
MainParseArgs ==
    /\ mpc = "parse_args"
    /\ IF ParseArgsReturns(args)
       THEN mpc' = "load_config" /\ UNCHANGED main_result
       ELSE mpc' = "done" /\ main_result' = "exit"
    /\ UNCHANGED <<args, constructed, step_log, main_error, pvars, close_calls,
                   main_frame>>

\* load_dotenv_file, load_rapras_config, load_proxy_config,
\* load_browser_config: outside the try block
MainLoadConfig ==
    /\ mpc = "load_config"
    /\ \/ mpc' = "construct" /\ UNCHANGED main_result
       \/ mpc' = "done" /\ main_result' = "ValueError"
    /\ UNCHANGED <<args, constructed, step_log, main_error, pvars, close_calls,
                   main_frame>>

\* RaprasScraper(...), YahooAuctionScraper(...) with a proxy_config that has
\* its three keys
MainConstruct ==
    /\ mpc = "construct"
    /\ constructed' = {"rapras", "yahoo"}
    /\ mpc' = "login"
    /\ UNCHANGED <<args, step_log, main_error, main_result, pvars, close_calls,
                   main_frame>>

\* await rapras_scraper.login(username, password): the call
MainLogin ==
    /\ mpc = "login"
    /\ step_log' = Append(step_log, Event("login", "begin"))
    /\ mpc' = "login_wait"
    /\ UNCHANGED <<args, constructed, main_error, main_result, pvars,
                   close_calls, main_frame>>

\* The steps of the aggregator agent's login() while main awaits it
LoginInMain == mpc = "login_wait" /\ LoginNext

\* login() has ended: main goes on to fetch_seller_links, or the error
\* leaves the try block
MainAfterLogin ==
    /\ mpc = "login_wait"
    /\ LoginEnded
    /\ IF LoginRaised
       THEN MainRaises("login", login_result)
       ELSE /\ step_log' = Append(step_log, Event("login", "end")
                                  ) \o <<Event("fetch_links", "begin")>>
            /\ mpc' = "fetch_links"
            /\ UNCHANGED main_error
    /\ UNCHANGED <<args, constructed, main_result, pvars, close_calls, main_frame>>

\* await rapras_scraper.fetch_seller_links(...): it raises, returns no link
\* (main returns), or returns n links and process_sellers is called
MainFetchLinks ==
    /\ mpc = "fetch_links"
    /\ \/ /\ \E e \in StepFailures : MainRaises("fetch_links", e)
          /\ UNCHANGED pvars
       \/ /\ MainReturns("fetch_links")
          /\ UNCHANGED pvars
       \/ \E n \in 1..MaxLinksFound :
             /\ PipelineStart(n)
             /\ step_log' = Append(step_log, Event("fetch_links", "end")
                                   ) \o <<Event("process", "begin")>>
             /\ mpc' = "process_wait"
             /\ UNCHANGED main_error
    /\ UNCHANGED <<args, constructed, main_result, close_calls, main_frame>>

\* The steps of process_sellers and of its units while main has not ended
PipelineInMain == mpc # "done" /\ PipelineNext

\* await process_sellers(...) has ended: gather's exception leaves the try
\* block; an empty list makes main return; otherwise the intermediate export
\* is next
MainAfterProcess ==
    /\ mpc = "process_wait"
    /\ ppc \in {"returned", "raised"}
    /\ IF ppc = "raised"
       THEN \E u \in Units :
               /\ completed[u].kind \in OtherErrors
               /\ MainRaises("process", completed[u].kind)
       ELSE IF retval = <<>>
            THEN MainReturns("process")
            ELSE /\ step_log' = Append(step_log, Event("process", "end"))
                 /\ mpc' = "export_intermediate"
                 /\ UNCHANGED main_error
    /\ UNCHANGED <<args, constructed, main_result, pvars, close_calls, main_frame>>

\* A synchronous step of the try block: it returns and main goes on at
\* `next`, or it raises
MainSyncStep(s, next) ==
    \/ /\ step_log' = step_log \o <<Event(s, "begin"), Event(s, "end")>>
       /\ mpc' = next
       /\ UNCHANGED main_error
    \/ \E e \in StepFailures :
          /\ step_log' = step_log \o <<Event(s, "begin"), Event(s, "raise")>>
          /\ main_error' = e
          /\ mpc' = "finally_rapras"

\* csv_exporter.export_intermediate_csv(seller_data_list)
MainExportIntermediate ==
    /\ mpc = "export_intermediate"
    /\ MainSyncStep("export_intermediate", "filter")
    /\ UNCHANGED <<args, constructed, main_result, pvars, close_calls, main_frame>>

\* anime_filter.filter_sellers(seller_data_list)
MainFilter ==
    /\ mpc = "filter"
    /\ MainSyncStep("filter", "export_final")
    /\ UNCHANGED <<args, constructed, main_result, pvars, close_calls, main_frame>>

\* csv_exporter.export_final_csv(filtered_sellers), then the end of the try
\* block
MainExportFinal ==
    /\ mpc = "export_final"
    /\ MainSyncStep("export_final", "finally_rapras")
    /\ UNCHANGED <<args, constructed, main_result, pvars, close_calls, main_frame>>

\* finally: if rapras_scraper: await rapras_scraper.close()
MainCloseRapras ==
    /\ mpc = "finally_rapras"
    /\ IF ShouldClose("rapras")
       THEN /\ close_calls' = Append(close_calls, CloseCall("main", "rapras"))
            /\ \E k \in CloseSteps(handles) : handles' = Closed(handles, k)
       ELSE UNCHANGED <<close_calls, handles>>
    /\ mpc' = "finally_yahoo"
    /\ UNCHANGED <<mvars_but_pc, pvars, agent, lpc, attempt, login_result,
                   session_file, ctx_cookies, proxy_obs, hvars, fvars, avars,
                   rvars, zvars>>

\* finally: if yahoo_scraper: await yahoo_scraper.close(); then main ends,
\* with the exception that was on its way out, if any
MainCloseYahoo ==
    /\ mpc = "finally_yahoo"
    /\ IF ShouldClose("yahoo")
       THEN close_calls' = Append(close_calls, CloseCall("main", "yahoo"))
       ELSE UNCHANGED close_calls
    /\ mpc' = "done"
    /\ main_result' = IF main_error = "None" THEN "returned" ELSE main_error
    /\ UNCHANGED <<args, constructed, step_log, main_error, pvars, main_frame>>

MainNext ==
    \/ MainParseArgs
    \/ MainLoadConfig
    \/ MainConstruct
    \/ MainLogin
    \/ LoginInMain
    \/ MainAfterLogin
    \/ MainFetchLinks
    \/ PipelineInMain
    \/ MainAfterProcess
    \/ MainExportIntermediate
    \/ MainFilter
    \/ MainExportFinal
    \/ MainCloseRapras
    \/ MainCloseYahoo

\* ==================================================== _parse_gemini_response
\* Largest number of pieces a reply is put together from
MaxReplyParts == 3

\* The tokens the parser looks for, as character sequences (romanised, one
\* string per character): the affirmative 'hai', the negatives 'iie',
\* 'dewaarimasen' and 'dewanai', and the keyword 'ANIME'
HAI == <<"ha", "i">>
IIE == <<"i", "i", "e">>
DEWAARIMASEN == <<"de", "ha", "a", "ri", "ma", "se", "n">>
DEWANAI == <<"de", "ha", "na", "i">>
ANIME == <<"A", "NI", "ME">>

NegativeTokens == {IIE, DEWAARIMASEN, DEWANAI}

\* `sub in text`
Contains(sub, text) ==
    \E i \in 1..(Len(text) - Len(sub) + 1) :
        SubSeq(text, i, i + Len(sub) - 1) = sub

\* _parse_gemini_response(response)
parse_gemini_response_mutant(r) ==
    \/ Contains(HAI, r) /\ ~(\E neg \in NegativeTokens : Contains(neg, r))
    \/ Contains(ANIME, r)
parse_gemini_response(r) ==
    LET has_negative == \E neg \in NegativeTokens : Contains(neg, r)
        has_positive == Contains(HAI, r)
    IN  IF has_positive /\ ~has_negative THEN TRUE
        ELSE IF Contains(ANIME, r) /\ ~has_negative THEN TRUE
        ELSE FALSE

\* Pieces replies are put together from: the tokens, single characters of
\* them, and a character of no token
ReplyPieces == {HAI, IIE, DEWAARIMASEN, DEWANAI, ANIME, <<"ha">>, <<"i">>, <<".">>}

RECURSIVE RepliesOf(_)
RepliesOf(n) ==
    IF n = 0 THEN {<<>>}
    ELSE LET shorter == RepliesOf(n - 1)
         IN  shorter \cup {r \o piece : r \in shorter, piece \in ReplyPieces}

Replies == RepliesOf(MaxReplyParts)

ParserInit ==
    /\ response \in Replies
    /\ parsed = <<>>

\* return self._parse_gemini_response(response)
ParseReply ==
    /\ parsed = <<>>
    /\ parsed' = <<parse_gemini_response(response)>>
    /\ UNCHANGED <<response, pvars, lvars, hvars, close_calls, fvars, mvars, avars,
                   zvars>>

ParserNext == ParseReply

\* ================================================== AnimeFilter.filter_sellers
\* Largest number of sellers handed to filter_sellers, and of titles a
\* seller has
MaxFilterSellers == 2
MaxTitles == 2

\* Product titles, as character sequences: a blank one and one of three words
FilterTitles == {<<" ">>, <<"a", " ", "b", "b", " ", "c">>}

\* str.split(): the maximal runs of non-whitespace characters
RECURSIVE SplitFrom(_, _)
SplitFrom(t, word) ==
    IF t = <<>> THEN (IF word = <<>> THEN <<>> ELSE <<word>>)
    ELSE IF Head(t) \in Whitespace
         THEN (IF word = <<>> THEN <<>> ELSE <<word>>) \o SplitFrom(Tail(t), <<>>)
         ELSE SplitFrom(Tail(t), Append(word, Head(t)))
Split(t) == SplitFrom(t, <<>>)

\* " ".join(words)
RECURSIVE Join(_)
Join(words) ==
    IF words = <<>> THEN <<>>
    ELSE IF Len(words) = 1 THEN words[1]
    ELSE words[1] \o <<" ">> \o Join(Tail(words))

\* _extract_title_words(title, max_words=2)
extract_title_words(title) ==
    LET words == Split(title)
    IN  Join(SubSeq(words, 1, IF Len(words) < 2 THEN Len(words) ELSE 2))

\* if not extracted_title.strip(): return False   (the tool is not invoked)
EmptyTitleMutant(title) == title = <<>>
EmptyTitle(title) == Strip(extract_title_words(title)) = <<>>

\* How subprocess.run can end: a reply on stdout, a non-zero exit status, the
\* 30 s timeout, or the tool cannot be started
ToolReplies == {HAI, IIE, ANIME \o DEWANAI, <<".">>}
ToolErrors == {"CalledProcessError", "TimeoutExpired", "FileNotFoundError"}

\* What is_anime_title raises when subprocess.run has raised e
RaisedByIsAnimeTitleMutant(e) == "GeminiAPIError"
RaisedByIsAnimeTitle(e) ==
    IF e \in {"CalledProcessError", "TimeoutExpired"} THEN "GeminiAPIError" ELSE e

\* except GeminiAPIError   (filter_sellers)
FilterCatchesMutant(e) == FALSE
FilterCatches(e) == e = "GeminiAPIError"

\* is_anime_seller = False   (before the titles of a seller are checked)
DefaultFlagMutant == TRUE
DefaultFlag == FALSE

\* Where filter_sellers goes on after a positive title: the break leaves the
\* loop over the titles
AfterPositiveMutant == "title"
AfterPositive == "append"

\* The seller lists handed to filter_sellers
TitleLists == UNION {[1..n -> FilterTitles] : n \in 0..MaxTitles}
SellerLists ==
    UNION {[1..n -> TitleLists] : n \in 0..MaxFilterSellers}

\* Largest title handed to is_anime_title, in characters
MaxTitleLen == 3

\* Every title of up to MaxTitleLen characters out of a letter, a blank and
\* a line break
TitleTexts == UNION {[1..n -> {"a", " ", "\n"}] : n \in 0..MaxTitleLen}

\* is_anime_title called for the one title of one seller
TitleInit ==
    /\ \E t \in TitleTexts :
          sellers = <<[seller_name |-> 1, product_titles |-> <<t>>]>>
    /\ apc = "seller"
    /\ si = 0
    /\ ti = 0
    /\ is_anime_seller = FALSE
    /\ filtered = <<>>
    /\ tool_calls = <<>>
    /\ verdicts = <<>>
    /\ filter_result = "running"

FilterInit ==
    /\ \E l \in SellerLists :
          sellers = [i \in 1..Len(l) |-> [seller_name |-> i, product_titles |-> l[i]]]
    /\ apc = "seller"
    /\ si = 0
    /\ ti = 0
    /\ is_anime_seller = FALSE
    /\ filtered = <<>>
    /\ tool_calls = <<>>
    /\ verdicts = <<>>
    /\ filter_result = "running"

filter_frame == <<pvars, lvars, hvars, close_calls, fvars, mvars, rvars, zvars>>

\* for seller in sellers: the next seller, with is_anime_seller = False; or
\* return result
FilterNextSeller ==
    /\ apc = "seller"
    /\ IF si < Len(sellers)
       THEN /\ si' = si + 1
            /\ ti' = 0
            /\ is_anime_seller' = DefaultFlag
            /\ tool_calls' = <<>>
            /\ verdicts' = <<>>
            /\ apc' = "title"
            /\ UNCHANGED filter_result
       ELSE /\ filter_result' = "returned"
            /\ apc' = "done"
            /\ UNCHANGED <<si, ti, is_anime_seller, tool_calls, verdicts>>
    /\ UNCHANGED <<sellers, filtered, filter_frame>>

\* for idx, product_title in enumerate(product_titles): the next title is
\* handed to is_anime_title, which returns False for an empty one and
\* otherwise starts the tool; after the last title the loop is over
FilterNextTitle ==
    /\ apc = "title"
    /\ IF ti < Len(sellers[si].product_titles)
       THEN /\ ti' = ti + 1
            /\ IF EmptyTitle(sellers[si].product_titles[ti + 1])
               THEN /\ verdicts' = Append(verdicts, "negative")
                    /\ apc' = "title"
                    /\ UNCHANGED tool_calls
               ELSE /\ tool_calls' = Append(tool_calls, ti + 1)
                    /\ apc' = "tool"
                    /\ UNCHANGED verdicts
       ELSE /\ apc' = "append"
            /\ UNCHANGED <<ti, tool_calls, verdicts>>
    /\ UNCHANGED <<sellers, si, is_anime_seller, filtered, filter_result,
                   filter_frame>>

\* subprocess.run has ended with a reply: it is parsed; a positive title sets
\* the flag and breaks, a negative one goes on with the next title
ToolReplied ==
    /\ apc = "tool"
    /\ \E reply \in ToolReplies :
          IF parse_gemini_response(Strip(reply))
          THEN /\ verdicts' = Append(verdicts, "positive")
               /\ is_anime_seller' = TRUE
               /\ apc' = AfterPositive
          ELSE /\ verdicts' = Append(verdicts, "negative")
               /\ apc' = "title"
               /\ UNCHANGED is_anime_seller
    /\ UNCHANGED <<sellers, si, ti, filtered, tool_calls, filter_result,
                   filter_frame>>

\* subprocess.run has raised: is_anime_title raises GeminiAPIError (caught
\* by filter_sellers, which goes on with the next title) or lets the
\* exception through, which ends filter_sellers
ToolFailed ==
    /\ apc = "tool"
    /\ \E e \in ToolErrors :
          IF FilterCatches(RaisedByIsAnimeTitle(e))
          THEN /\ verdicts' = Append(verdicts, RaisedByIsAnimeTitle(e))
               /\ apc' = "title"
               /\ UNCHANGED filter_result
          ELSE /\ filter_result' = RaisedByIsAnimeTitle(e)
               /\ apc' = "done"
               /\ UNCHANGED verdicts
    /\ UNCHANGED <<sellers, si, ti, is_anime_seller, filtered, tool_calls,
                   filter_frame>>

\* seller.get("seller_url", "")
SellerUrl(seller) ==
    IF "seller_url" \in DOMAIN seller THEN seller.seller_url ELSE <<>>

\* result.append({... "is_anime_seller": is_anime_seller})
FilterAppend ==
    /\ apc = "append"
    /\ filtered' = Append(filtered, [seller_name |-> sellers[si].seller_name,
                                     seller_url |-> SellerUrl(sellers[si]),
                                     is_anime_seller |-> is_anime_seller])
    /\ apc' = "seller"
    /\ UNCHANGED <<sellers, si, ti, is_anime_seller, tool_calls, verdicts,
                   filter_result, filter_frame>>

FilterNext ==
    \/ FilterNextSeller
    \/ FilterNextTitle
    \/ ToolReplied
    \/ ToolFailed
    \/ FilterAppend

\* ================================================ SessionManager, its files
\* Values of the program: a str is its characters, a bool its name, a dict
\* its items <<key, value>> in insertion order, a list its elements
PyStr(chars) == <<"str", chars>>
PyBool(b) == <<"bool", <<IF b THEN "True" ELSE "False">>>>
PyDict(items) == <<"dict", items>>
PyList(elems) == <<"list", elems>>

\* Cookies BrowserContext.cookies() returns, with a str and a bool of their
\* fields: a plain name, a name with a quotation mark and a name with a
\* character outside ASCII (U+3042)
NAME == <<"n", "a", "m", "e">>
SECURE == <<"s", "e", "c", "u", "r", "e">>
Cookie(name, secure) ==
    PyDict(<< <<NAME, PyStr(name)>>, <<SECURE, PyBool(secure)>> >>)
CookieLists ==
    {PyList(<<>>),
     PyList(<<Cookie(<<"a">>, TRUE)>>),
     PyList(<<Cookie(<<"U+3042">>, FALSE)>>),
     PyList(<<Cookie(<<"\"">>, FALSE), Cookie(<<"a", "U+3042">>, TRUE)>>)}

\* json.dump(cookies, f, ensure_ascii=False, indent=2): the text written
Indent(level) == [i \in 1..(2 * level) |-> " "]

RECURSIVE Escaped(_)
Escaped(chars) ==
    IF chars = <<>> THEN <<>>
    ELSE (CASE Head(chars) = "\"" -> <<"\\", "\"">>
            [] Head(chars) = "\\" -> <<"\\", "\\">>
            [] Head(chars) = "\n" -> <<"\\", "n">>
            [] OTHER -> <<Head(chars)>>) \o Escaped(Tail(chars))

Quoted(chars) == <<"\"">> \o Escaped(chars) \o <<"\"">>

RECURSIVE json_dumps(_, _)
RECURSIVE DumpElems(_, _)
RECURSIVE DumpItems(_, _)
json_dumps(v, level) ==
    CASE v[1] = "str" -> Quoted(v[2])
      [] v[1] = "bool" -> IF v[2] = <<"True">> THEN <<"t", "r", "u", "e">>
                          ELSE <<"f", "a", "l", "s", "e">>
      [] v[1] = "None" -> <<"n", "u", "l", "l">>
      [] v[1] = "list" ->
           IF v[2] = <<>> THEN <<"[", "]">>
           ELSE <<"[", "\n">> \o DumpElems(v[2], level + 1)
                \o <<"\n">> \o Indent(level) \o <<"]">>
      [] v[1] = "dict" ->
           IF v[2] = <<>> THEN <<"{", "}">>
           ELSE <<"{", "\n">> \o DumpItems(v[2], level + 1)
                \o <<"\n">> \o Indent(level) \o <<"}">>
DumpElems(elems, level) ==
    Indent(level) \o json_dumps(Head(elems), level)
    \o (IF Len(elems) = 1 THEN <<>>
        ELSE <<",", "\n">> \o DumpElems(Tail(elems), level))
DumpItems(items, level) ==
    Indent(level) \o Quoted(Head(items)[1]) \o <<":", " ">>
    \o json_dumps(Head(items)[2], level)
    \o (IF Len(items) = 1 THEN <<>>
        ELSE <<",", "\n">> \o DumpItems(Tail(items), level))

\* open(..., encoding="utf-8"): U+3042 is the three bytes E3 81 82, an ASCII
\* character is one byte (the text is encoded half by half)
RECURSIVE Utf8Encode(_)
Utf8Encode(chars) ==
    IF chars = <<>> THEN <<>>
    ELSE IF Len(chars) = 1
    THEN (IF chars[1] = "U+3042" THEN <<"E3", "81", "82">> ELSE chars)
    ELSE Utf8Encode(SubSeq(chars, 1, Len(chars) \div 2))
         \o Utf8Encode(SubSeq(chars, Len(chars) \div 2 + 1, Len(chars)))

\* Reading with encoding="utf-8": UnicodeDecodeError (ok = FALSE) for a byte
\* that is not the start of a character or a character that is cut short
LeadByte(b) == b \notin {"81", "82"}
Utf8Decode(bytes) ==
    LET n == Len(bytes)
        ok == \A i \in 1..n :
                 /\ bytes[i] # "FF"
                 /\ bytes[i] = "E3" =>
                        i + 2 <= n /\ bytes[i + 1] = "81" /\ bytes[i + 2] = "82"
                 /\ bytes[i] = "81" => i > 1 /\ bytes[i - 1] = "E3"
                 /\ bytes[i] = "82" => i > 1 /\ bytes[i - 1] = "81"
        leads == SelectSeq(bytes, LeadByte)
    IN  IF ok
        THEN [ok |-> TRUE,
              text |-> [i \in 1..Len(leads) |->
                          IF leads[i] = "E3" THEN "U+3042" ELSE leads[i]]]
        ELSE [ok |-> FALSE, text |-> <<>>]

\* json.load: what the decoder makes of a text. ok = FALSE: JSONDecodeError
NoParse == [ok |-> FALSE, val |-> PyNone, rest |-> <<>>]
Parsed(v, rest) == [ok |-> TRUE, val |-> v, rest |-> rest]

\* The characters of a string literal after its opening quotation mark
RECURSIVE ScanString(_, _)
ScanString(t, acc) ==
    IF t = <<>> THEN NoParse
    ELSE IF Head(t) = "\"" THEN Parsed(PyStr(acc), Tail(t))
    ELSE IF Head(t) = "\\"
    THEN IF Len(t) < 2 THEN NoParse
         ELSE IF t[2] \in {"\"", "\\"}
         THEN ScanString(SubSeq(t, 3, Len(t)), Append(acc, t[2]))
         ELSE IF t[2] = "n"
         THEN ScanString(SubSeq(t, 3, Len(t)), Append(acc, "\n"))
         ELSE NoParse
    ELSE IF Head(t) = "\n" THEN NoParse
    ELSE ScanString(Tail(t), Append(acc, Head(t)))

StartsWith(t, word) == Len(t) >= Len(word) /\ SubSeq(t, 1, Len(word)) = word
After(t, word) == SubSeq(t, Len(word) + 1, Len(t))

RECURSIVE ParseValue(_)
RECURSIVE ParseElems(_, _)
RECURSIVE ParseItems(_, _)
ParseValue(t0) ==
    LET t == StripLeft(t0) IN
    IF t = <<>> THEN NoParse
    ELSE IF Head(t) = "\"" THEN ScanString(Tail(t), <<>>)
    ELSE IF Head(t) = "["
    THEN LET u == StripLeft(Tail(t)) IN
         IF u # <<>> /\ Head(u) = "]" THEN Parsed(PyList(<<>>), Tail(u))
         ELSE ParseElems(u, <<>>)
    ELSE IF Head(t) = "{"
    THEN LET u == StripLeft(Tail(t)) IN
         IF u # <<>> /\ Head(u) = "}" THEN Parsed(PyDict(<<>>), Tail(u))
         ELSE ParseItems(u, <<>>)
    ELSE IF StartsWith(t, <<"t", "r", "u", "e">>)
    THEN Parsed(PyBool(TRUE), After(t, <<"t", "r", "u", "e">>))
    ELSE IF StartsWith(t, <<"f", "a", "l", "s", "e">>)
    THEN Parsed(PyBool(FALSE), After(t, <<"f", "a", "l", "s", "e">>))
    ELSE IF StartsWith(t, <<"n", "u", "l", "l">>)
    THEN Parsed(PyNone, After(t, <<"n", "u", "l", "l">>))
    ELSE NoParse
ParseElems(t, acc) ==
    LET r == ParseValue(t) IN
    IF ~r.ok THEN NoParse
    ELSE LET u == StripLeft(r.rest) IN
         IF u = <<>> THEN NoParse
         ELSE IF Head(u) = "," THEN ParseElems(Tail(u), Append(acc, r.val))
         ELSE IF Head(u) = "]" THEN Parsed(PyList(Append(acc, r.val)), Tail(u))
         ELSE NoParse
ParseItems(t0, acc) ==
    LET t == StripLeft(t0) IN
    IF t = <<>> \/ Head(t) # "\"" THEN NoParse
    ELSE LET k == ScanString(Tail(t), <<>>) IN
         IF ~k.ok THEN NoParse
         ELSE LET c == StripLeft(k.rest) IN
              IF c = <<>> \/ Head(c) # ":" THEN NoParse
              ELSE LET r == ParseValue(Tail(c)) IN
                   IF ~r.ok THEN NoParse
                   ELSE LET u == StripLeft(r.rest)
                            item == <<k.val[2], r.val>>
                        IN  IF u = <<>> THEN NoParse
                            ELSE IF Head(u) = ","
                            THEN ParseItems(Tail(u), Append(acc, item))
                            ELSE IF Head(u) = "}"
                            THEN Parsed(PyDict(Append(acc, item)), Tail(u))
                            ELSE NoParse

json_loads(text) ==
    LET r == ParseValue(text) IN
    IF r.ok /\ StripLeft(r.rest) = <<>> THEN r ELSE NoParse

\* The bytes save_session writes for a cookie list (worked out once for
\* each list)
SessionBytesOf == [cookies \in CookieLists |-> Utf8Encode(json_dumps(cookies, 0))]
SessionBytes(cookies) == SessionBytesOf[cookies]

\* How the try block of save_session can end, as the number of bytes that
\* reached the file: -1 when mkdir or open raised OSError (the file is not
\* touched), all of them when nothing was raised, and fewer when a write
\* raised OSError after open has truncated the file (of these: none, all but
\* the last, and every cut inside a character of several bytes)
WriteEnds(bytes) ==
    {-1, Len(bytes)} \cup
    {k \in 0..(Len(bytes) - 1) :
        k = 0 \/ k = Len(bytes) - 1 \/ bytes[k] \in {"E3", "81"}}

\* What a call has left for the service: a cookie list, no file (None), or
\* a file nobody can vouch for (known = FALSE)
Stored(v) == [known |-> TRUE, value |-> v]
Unknown == [known |-> FALSE, value |-> PyNone]

\* How a call ended: the exception that left it ("None": it returned), the
\* value it returned, and whether an OSError was caught and logged inside
Ended(op, svc, raised, oserror, v) ==
    [op |-> op, service |-> svc, raised |-> raised, oserror |-> oserror,
     value |-> v]
Returned(op, svc, v) == Ended(op, svc, "None", FALSE, v)

\* SessionManager.save_session
SaveSessionMutant(svc, cookies, k) ==
    LET bytes == SessionBytes(cookies)
        f == SessionFile(svc)
        old == IF store[f].present THEN store[f].bytes ELSE <<>>
    IN  /\ store' = IF k = -1 THEN store
                    ELSE [store EXCEPT ![f] =
                            [present |-> TRUE,
                             bytes |-> SubSeq(bytes, 1, k)
                                       \o SubSeq(old, k + 1, Len(old))]]
        /\ store_ret' = Ended("save_session", svc, "None", k # Len(bytes), PyNone)
        /\ last_saved' = [last_saved EXCEPT ![svc] =
                            IF k = Len(bytes) THEN Stored(cookies)
                            ELSE IF k = -1 THEN @ ELSE Unknown]
SaveSession(svc, cookies, k) ==
    LET bytes == SessionBytes(cookies)
        f == SessionFile(svc)
    IN  /\ store' = IF k = -1 THEN store
                    ELSE [store EXCEPT ![f] =
                            [present |-> TRUE, bytes |-> SubSeq(bytes, 1, k)]]
        /\ store_ret' = Ended("save_session", svc, "None", k # Len(bytes), PyNone)
        /\ last_saved' = [last_saved EXCEPT ![svc] =
                            IF k = Len(bytes) THEN Stored(cookies)
                            ELSE IF k = -1 THEN @ ELSE Unknown]

\* SessionManager.load_session, on the bytes of the file: None when the file
\* does not exist, when reading raises OSError and when json.load raises
\* JSONDecodeError; UnicodeDecodeError is neither and leaves the method
LoadSession(svc, read_ok) ==
    LET f == store[SessionFile(svc)]
        decoded == Utf8Decode(f.bytes)
        loaded == json_loads(decoded.text)
    IN  IF ~f.present THEN Returned("load_session", svc, PyNone)
        ELSE IF ~read_ok THEN Ended("load_session", svc, "None", TRUE, PyNone)
        ELSE IF ~decoded.ok
        THEN Ended("load_session", svc, "UnicodeDecodeError", FALSE, PyNone)
        ELSE IF ~loaded.ok THEN Returned("load_session", svc, PyNone)
        ELSE Returned("load_session", svc, loaded.val)

\* SessionManager.session_exists
SessionExists(svc) == store[SessionFile(svc)].present

store_frame == <<pvars, lvars, hvars, close_calls, fvars, mvars, avars, rvars,
                evars, kvars, cvars>>

StoreSave ==
    /\ \E svc \in Services, cookies \in CookieLists :
          \E k \in WriteEnds(SessionBytes(cookies)) : SaveSession(svc, cookies, k)
    /\ UNCHANGED store_frame

StoreLoad ==
    /\ \E svc \in Services, read_ok \in BOOLEAN :
          store_ret' = LoadSession(svc, read_ok)
    /\ UNCHANGED <<store, last_saved, store_frame>>

StoreExists ==
    /\ \E svc \in Services :
          store_ret' = Returned("session_exists", svc, PyBool(SessionExists(svc)))
    /\ UNCHANGED <<store, last_saved, store_frame>>

\* SessionManager.delete_session: unlink, whose OSError is logged
StoreDelete ==
    /\ \E svc \in Services, unlink_ok \in BOOLEAN :
          LET f == SessionFile(svc) IN
          /\ store' = IF store[f].present /\ unlink_ok
                      THEN [store EXCEPT ![f] = Missing] ELSE store
          /\ store_ret' = Ended("delete_session", svc, "None",
                                store[f].present /\ ~unlink_ok, PyNone)
          /\ last_saved' = IF store[f].present /\ ~unlink_ok THEN last_saved
                           ELSE [last_saved EXCEPT ![svc] = Stored(PyNone)]
    /\ UNCHANGED store_frame

StoreNext ==
    \/ StoreSave
    \/ StoreLoad
    \/ StoreExists
    \/ StoreDelete

\* Session files found when the program starts: none, one written by an
\* earlier run, one that is no JSON text, one that is no UTF-8 text
FoundFiles ==
    {Missing,
     [present |-> TRUE,
      bytes |-> Utf8Encode(json_dumps(PyList(<<Cookie(<<"a">>, TRUE)>>), 0))],
     [present |-> TRUE, bytes |-> <<"{">>],
     [present |-> TRUE, bytes |-> <<"FF">>]}

StoreInit ==
    /\ store \in [{SessionFile(svc) : svc \in Services} -> FoundFiles]
    /\ store_ret = [op |-> "none", service |-> "none", raised |-> "None",
                    oserror |-> FALSE, value |-> PyNone]
    /\ last_saved = [svc \in Services |-> Unknown]

\* ================================================================ CSVExporter
\* Most seller records in a list handed to an export
MaxExportSellers == 2

\* "mihantei" (undetermined); "hai" and "iie" are HAI and IIE above
MIHANTEI == <<"mi", "ha", "n", "te", "i">>

\* The column names, romanised: seller name, seller page URL, derivative work
Columns == <<"sera-mei", "sera-pe-ji URL", "nijisousaku">>

PyInt(digits) == <<"int", digits>>

\* A seller record with the given keys
SellerDict(name, url) ==
    PyDict(<< <<"seller_name", PyStr(name)>>, <<"seller_url", PyStr(url)>> >>)
Flagged(record, flag) ==
    PyDict(Append(record[2], <<"is_anime_seller", flag>>))

\* Items of a sellers list: records whose flag is True, False, None, the
\* int 1 or missing, records that lack a required key, and items that are no
\* dict (a str, None)
ExportItems ==
    {Flagged(SellerDict(<<"s", "1">>, <<"u", "1">>), flag) :
        flag \in {PyBool(TRUE), PyBool(FALSE), PyNone, PyInt(<<"1">>)}}
    \cup {Flagged(SellerDict(<<"s", "2">>, <<"u", "2">>), PyBool(TRUE)),
          SellerDict(<<"s", "3">>, <<"u", "3">>),
          PyDict(<< <<"seller_url", PyStr(<<"u", "4">>)>> >>),
          PyDict(<< <<"seller_name", PyStr(<<"s", "5">>)>> >>),
          PyStr(<<"s", "6">>),
          PyNone}

\* The sellers argument: None, or a list of up to MaxExportSellers items
SellersArgs ==
    {PyNone} \cup
    {PyList(l) : l \in UNION {[1..n -> ExportItems] : n \in 0..MaxExportSellers}}

\* `key in d` and d.get(key) of a dict
HasKey(dict, key) == \E i \in 1..Len(dict[2]) : dict[2][i][1] = key
Get(dict, key) ==
    IF HasKey(dict, key)
    THEN dict[2][CHOOSE i \in 1..Len(dict[2]) : dict[2][i][1] = key][2]
    ELSE PyNone

\* s[key]: the value, KeyError when a dict has no such key, TypeError when s
\* is no dict (a str or None cannot be subscripted with a str)
Subscript(item, key) ==
    IF item[1] # "dict" THEN [raised |-> "TypeError", value |-> PyNone]
    ELSE IF ~HasKey(item, key) THEN [raised |-> "KeyError", value |-> PyNone]
    ELSE [raised |-> "None", value |-> Get(item, key)]

\* [s[key] for s in sellers]: iterating None raises TypeError; the first item
\* whose subscription raises ends the comprehension
Column(list_arg, key) ==
    IF list_arg[1] # "list" THEN [raised |-> "TypeError", values |-> <<>>]
    ELSE LET items == list_arg[2]
             got == [i \in 1..Len(items) |-> Subscript(items[i], key)]
             bad == {i \in 1..Len(items) : got[i].raised # "None"}
         IN IF bad = {}
            THEN [raised |-> "None", values |-> [i \in 1..Len(items) |-> got[i].value]]
            ELSE [raised |-> got[CHOOSE i \in bad : \A j \in bad : i <= j].raised,
                  values |-> <<>>]

\* CSVExporter._map_is_anime_seller: `is True`, `is False`, else
map_is_anime_seller_mutant(value) ==
    IF value = PyBool(TRUE) THEN HAI ELSE IIE
map_is_anime_seller(value) ==
    IF value = PyBool(TRUE) THEN HAI
    ELSE IF value = PyBool(FALSE) THEN IIE
    ELSE MIHANTEI

\* The third column: the fixed token of the intermediate export, the mapped
\* s.get("is_anime_seller") of the final one (AttributeError on an item
\* without get)
FlagColumn(op, list_arg) ==
    LET items == list_arg[2] IN
    IF op = "intermediate"
    THEN [raised |-> "None", values |-> [i \in 1..Len(items) |-> MIHANTEI]]
    ELSE IF \E i \in 1..Len(items) : items[i][1] # "dict"
         THEN [raised |-> "AttributeError", values |-> <<>>]
         ELSE [raised |-> "None",
               values |-> [i \in 1..Len(items) |->
                             map_is_anime_seller(Get(items[i], "is_anime_seller"))]]

\* What to_csv writes in a cell: the characters of a str, nothing for None
\* (the names here have no character that to_csv would quote)
Cell(v) == IF v[1] = "str" THEN v[2] ELSE <<>>

\* DataFrame.to_csv(index=False): the header line and one line per record
CsvOf(names, urls, flags) ==
    <<Columns>> \o
    [i \in 1..Len(names) |-> <<Cell(names[i]), Cell(urls[i]), flags[i]>>]

\* How an export call ends
ExportEnded(op, error, dir, lines, done) ==
    [op |-> op, raised |-> error, output_dir |-> dir, csv |-> lines,
     written |-> done]

\* export_intermediate_csv / export_final_csv: _generate_filepath makes the
\* output directory (dir_ok: makedirs does not raise), the three columns are
\* built in order, and _save_csv writes the file or raises IOError, which is
\* OSError (write_ok: to_csv does not raise)
Export(op, list_arg, dir_ok, write_ok) ==
    LET names == Column(list_arg, "seller_name")
        urls == Column(list_arg, "seller_url")
        flags == FlagColumn(op, list_arg)
    IN IF ~dir_ok THEN ExportEnded(op, "OSError", FALSE, <<>>, FALSE)
       ELSE IF names.raised # "None"
            THEN ExportEnded(op, names.raised, TRUE, <<>>, FALSE)
       ELSE IF urls.raised # "None"
            THEN ExportEnded(op, urls.raised, TRUE, <<>>, FALSE)
       ELSE IF flags.raised # "None"
            THEN ExportEnded(op, flags.raised, TRUE, <<>>, FALSE)
       ELSE IF ~write_ok THEN ExportEnded(op, "OSError", TRUE, <<>>, FALSE)
       ELSE ExportEnded(op, "None", TRUE,
                        CsvOf(names.values, urls.values, flags.values), TRUE)

export_frame == <<pvars, lvars, hvars, close_calls, fvars, mvars, avars, rvars,
                 svars, kvars, cvars>>

ExportIntermediate ==
    /\ \E dir_ok \in BOOLEAN, write_ok \in BOOLEAN :
          export_ret' = Export("intermediate", export_arg, dir_ok, write_ok)
    /\ UNCHANGED <<export_arg, export_frame>>

ExportFinal ==
    /\ \E dir_ok \in BOOLEAN, write_ok \in BOOLEAN :
          export_ret' = Export("final", export_arg, dir_ok, write_ok)
    /\ UNCHANGED <<export_arg, export_frame>>

ExportNext ==
    \/ ExportIntermediate
    \/ ExportFinal

ExportInit ==
    /\ export_arg \in SellersArgs
    /\ export_ret = NoExport

\* ---- main: filter_sellers, then export_final_csv
\* A dict filter_sellers has appended, as a value of the program
AsDict(r) ==
    PyDict(<< <<"seller_name", PyStr(<<r.seller_name>>)>>,
              <<"seller_url", PyStr(r.seller_url)>>,
              <<"is_anime_seller", PyBool(r.is_anime_seller)>> >>)

\* A seller record handed to filter_sellers, as a value of the program
AsSellerData(r) ==
    PyDict(<< <<"seller_name", PyStr(<<r.seller_name>>)>>,
              <<"seller_url", PyStr(SellerUrl(r))>>,
              <<"product_titles", PyList(r.product_titles)>> >>)

\* filtered_sellers = anime_filter.filter_sellers(seller_data_list);
\* csv_exporter.export_final_csv(filtered_sellers)
ExportFilteredMutant ==
    /\ apc = "done" /\ filter_result = "returned"
    /\ export_ret = NoExport
    /\ export_arg' = PyList([j \in 1..Len(sellers) |-> AsSellerData(sellers[j])])
    /\ \E dir_ok \in BOOLEAN, write_ok \in BOOLEAN :
          export_ret' = Export("final", export_arg', dir_ok, write_ok)
    /\ UNCHANGED export_frame
ExportFiltered ==
    /\ apc = "done" /\ filter_result = "returned"
    /\ export_ret = NoExport
    /\ export_arg' = PyList([j \in 1..Len(filtered) |-> AsDict(filtered[j])])
    /\ \E dir_ok \in BOOLEAN, write_ok \in BOOLEAN :
          export_ret' = Export("final", export_arg', dir_ok, write_ok)
    /\ UNCHANGED export_frame

ClassifyNext ==
    \/ FilterNext
    \/ ExportFiltered

\* ======================================================== fetch_seller_links
\* The arguments of a fetch_seller_links call
LinkMinPrices == MinPrices \cup {2}
LinksArgs ==
    [start_date : ArgDates, end_date : ArgDates, min_price : LinkMinPrices]

\* The call as it is made: its arguments, whether the agent has a page, and
\* whether a login() on the agent has returned True
LinksCalled(a) ==
    [start_date |-> a.start_date, end_date |-> a.end_date,
     min_price |-> a.min_price, page |-> handles[PAGE],
     logged_in |-> (login_result = "True")]

\* if not self.page: raise RuntimeError("Browser not initialized. ...")
LinksRefused(call) == ~call.page

links_frame == <<pvars, lvars, hvars, close_calls, fvars, mvars, avars, rvars,
                svars, evars, cvars>>

\* login() of the aggregator agent runs, if at all, before the call
LoginBeforeLinks == kpc = "idle" /\ LoginNext

\* fetch_seller_links(start_date, end_date, min_price) is called on an agent
\* whose login() has not been called or has ended: the only test made before
\* the request is that of self.page
LinksCall ==
    /\ kpc = "idle"
    /\ lpc \in {"call", "done"}
    /\ \E a \in LinksArgs :
          /\ links_call' = LinksCalled(a)
          /\ IF LinksRefused(LinksCalled(a))
             THEN kpc' = "done" /\ links_result' = "RuntimeError"
             ELSE kpc' = "goto" /\ UNCHANGED links_result
    /\ UNCHANGED <<navigations, results_table, links_found, links_frame>>

\* page.goto(url with sdate and edate): TimeoutError and every other
\* exception is logged and raised again
LinksGoto ==
    /\ kpc = "goto"
    /\ navigations' = navigations + 1
    /\ \/ kpc' = "scan" /\ UNCHANGED links_result
       \/ \E e \in StepErrors : kpc' = "done" /\ links_result' = e
    /\ UNCHANGED <<links_call, results_table, links_found, links_frame>>

\* ---- the rows of the results table
\* Most rows in a results table
MaxRows == 2

\* A row: whether it has the name cell and its text, whether it has the
\* price cell and its text, whether the name cell has a link and its href
\* (None when the attribute is missing), and the exception a read of the row
\* raises ("None": none)
Row(has_name, name, has_price, price_text, has_link, href, error) ==
    [has_name |-> has_name, name |-> name, has_price |-> has_price,
     price_text |-> price_text, has_link |-> has_link, href |-> href,
     error |-> error]

\* A complete row of seller n with that price text
SellerRow(n, price_text) ==
    Row(TRUE, <<"s", n>>, TRUE, price_text, TRUE, PyStr(<<"l", n>>), "None")

\* Rows a table can have: prices 1, 2 and "1,0en" (10), a price that is no
\* number, a row without name, without price, without link, with a link
\* without href, and rows whose read raises AttributeError or another
\* exception
TableRows ==
    {SellerRow("1", <<"1">>),
     SellerRow("2", <<"2">>),
     SellerRow("3", <<"1", ",", "0", "en">>),
     SellerRow("4", <<" ", "-", "1">>),
     SellerRow("5", <<"en", "x">>),
     Row(FALSE, <<>>, TRUE, <<"2">>, FALSE, PyNone, "None"),
     Row(TRUE, <<"s", "7">>, FALSE, <<>>, TRUE, PyStr(<<"l", "7">>), "None"),
     Row(TRUE, <<"s", "8">>, TRUE, <<"2">>, FALSE, PyNone, "None"),
     Row(TRUE, <<"s", "9">>, TRUE, <<"2">>, TRUE, PyNone, "None"),
     Row(TRUE, <<"s", "a">>, TRUE, <<"2">>, TRUE, PyStr(<<"l", "a">>),
         "AttributeError"),
     Row(TRUE, <<"s", "b">>, TRUE, <<"2">>, TRUE, PyStr(<<"l", "b">>),
         "Exception")}

Tables == UNION {[1..n -> TableRows] : n \in 0..MaxRows}

\* price_text.replace(",", "").replace("en", "")
Cleaned(price_text) == SelectSeq(price_text, LAMBDA c : c \notin {",", "en"})

Digits == <<"0", "1", "2", "3", "4", "5", "6", "7", "8", "9">>
DigitValue(c) == (CHOOSE i \in 1..10 : Digits[i] = c) - 1

\* The number a non-empty run of decimal digits denotes
RECURSIVE DecimalValue(_)
DecimalValue(ds) ==
    IF ds = <<>> THEN 0
    ELSE 10 * DecimalValue(SubSeq(ds, 1, Len(ds) - 1)) + DigitValue(ds[Len(ds)])

\* int(text): surrounding whitespace is dropped, a sign may lead, and the
\* rest must be decimal digits; anything else raises ValueError
IntOf(text) ==
    LET t == Strip(text)
        signed == t # <<>> /\ t[1] \in {"-", "+"}
        ds == IF signed THEN Tail(t) ELSE t
    IN IF ds = <<>> \/ \E i \in 1..Len(ds) : \A k \in 1..10 : Digits[k] # ds[i]
       THEN [raised |-> "ValueError", value |-> 0]
       ELSE [raised |-> "None",
             value |-> IF signed /\ t[1] = "-" THEN 0 - DecimalValue(ds)
                       ELSE DecimalValue(ds)]

\* price_value < min_price: the row is skipped
BelowFloorMutant(price_value, min_price) == price_value <= min_price
BelowFloor(price_value, min_price) == price_value < min_price

\* The body of the loop for one row: "skip" (continue, also after a
\* ValueError or AttributeError), "raise" (another exception leaves the
\* loop), or "append" with the dict that is appended
ScanRow(row, min_price) ==
    LET price == IntOf(Cleaned(row.price_text))
        skip == [do |-> "skip", item |-> <<>>, error |-> "None"]
    IN IF ~row.has_name THEN skip
       ELSE IF row.error = "AttributeError" THEN skip
       ELSE IF row.error # "None"
            THEN [do |-> "raise", item |-> <<>>, error |-> row.error]
       ELSE IF ~row.has_price THEN skip
       ELSE IF price.raised = "ValueError" THEN skip
       ELSE IF BelowFloor(price.value, min_price) THEN skip
       ELSE IF ~row.has_link THEN skip
       ELSE [do |-> "append",
             item |-> <<[seller_name |-> row.name, total_price |-> price.value,
                         link |-> row.href]>>,
             error |-> "None"]

\* for row in rows: the list collected from the first n rows, and the
\* exception that has ended the loop ("None": none)
RECURSIVE ScanRows(_, _, _)
ScanRows(rows, n, min_price) ==
    IF n = 0 THEN [sellers |-> <<>>, error |-> "None"]
    ELSE LET before == ScanRows(rows, n - 1, min_price)
             this == ScanRow(rows[n], min_price)
         IN IF before.error # "None" THEN before
            ELSE IF this.do = "raise"
                 THEN [sellers |-> before.sellers, error |-> this.error]
            ELSE [sellers |-> before.sellers \o this.item, error |-> "None"]

\* query_selector_all("table tbody tr") and the loop over the rows: the
\* list is returned, or an exception that is no ValueError or
\* AttributeError of a row is logged and raised again
LinksScan ==
    /\ kpc = "scan"
    /\ kpc' = "done"
    /\ \/ \E e \in StepErrors : links_result' = e /\ UNCHANGED links_found
       \/ LET scan == ScanRows(results_table, Len(results_table),
                               links_call.min_price)
          IN IF scan.error # "None"
             THEN links_result' = scan.error /\ UNCHANGED links_found
             ELSE links_result' = "returned" /\ links_found' = scan.sellers
    /\ UNCHANGED <<links_call, navigations, results_table, links_frame>>

LinksNext ==
    \/ LoginBeforeLinks
    \/ LinksCall
    \/ LinksGoto
    \/ LinksScan

\* The aggregator agent after a login() that succeeded by credential entry
\* in its first attempt and saved the session
LoggedInRapras ==
    /\ agent = "rapras"
    /\ lpc = "done"
    /\ attempt = 0
    /\ login_result = "True"
    /\ session_file = [svc \in Services |->
                          IF svc = "rapras" THEN "c1" ELSE "absent"]
    /\ handles = [h \in 1..4 |-> TRUE]
    /\ ctx_cookies = "c1"
    /\ proxy_obs = NoProxyObs
    /\ attempts_started = 1
    /\ session_checks = 1
    /\ proxy_checks = 0
    /\ entry_call = {"fill_credentials", "click_login"}
    /\ entry_attempt = {"fill_credentials", "click_login"}
    /\ sleeps = <<>>
    /\ failures = <<>>
    /\ save_calls = << <<"rapras", "c1">> >>
    /\ store_access = {<<"session_exists", "rapras">>, <<"save_session", "rapras">>}
    /\ success_via = "fresh"
    /\ close_calls = <<>>

\* fetch_seller_links not yet called, the page showing some table
RowsInit ==
    /\ kpc = "idle"
    /\ links_call = NoLinksCall
    /\ navigations = 0
    /\ links_result = "running"
    /\ results_table \in Tables
    /\ links_found = <<>>

\* The call on a logged-in agent, without the login() before it
RowsNext ==
    \/ LinksCall
    \/ LinksGoto
    \/ LinksScan

\* ================================================================== close()
\* Most close() calls followed on one agent
MaxCloseCalls == 3

\* The release steps in the order close() takes them
CloseOrder == <<PAGE, CONTEXT, BROWSER, PLAYWRIGHT>>
CloseStepNames == <<"page", "context", "browser", "playwright">>
StepIndex(step) == CHOOSE i \in 1..4 : CloseStepNames[i] = step
HandleOf(step) == CloseOrder[StepIndex(step)]
StepIndexOfHandle(h) == CHOOSE i \in 1..4 : CloseOrder[i] = h

\* The step after this one; after the last, close() returns
StepAfter(step) ==
    IF StepIndex(step) = 4 THEN "done" ELSE CloseStepNames[StepIndex(step) + 1]

\* except Exception as e: logger.warning(...)
CloseCatchesMutant(e) == e = "TimeoutError"
CloseCatches(e) == e \in {"TimeoutError", "Exception"}

\* Where close() goes on after a release step has raised: the except clause
\* is outside the four steps, so the later ones are not run
AfterFailedReleaseMutant(step) == StepAfter(step)
AfterFailedRelease(step) == "done"

\* What a close() call has done when it ends
CloseEnded(n, before, after, outcome) ==
    [call |-> n, before |-> before, after |-> after, outcome |-> outcome]

\* Handles of the close() call under way, as they were when it was called
HandlesAtCall ==
    [h \in 1..4 |->
        handles[h] \/ \E i \in 1..Len(releases) :
                         /\ releases[i].call = Len(close_log) + 1
                         /\ releases[i].handle = h
                         /\ releases[i].ok]

close_frame == <<pvars, agent, lpc, attempt, login_result, session_file,
                ctx_cookies, proxy_obs, hvars, close_calls, fvars, mvars, avars,
                rvars, svars, evars, kvars>>

\* close() is called, by cleanup code in which an exception may be on its
\* way out
CloseBegin ==
    /\ cpc = "idle"
    /\ Len(close_log) < MaxCloseCalls
    /\ cpc' = "page"
    /\ UNCHANGED <<handles, releases, close_log, in_flight, close_frame>>

\* One `if self.x: await self.x.close(); self.x = None`: skipped when the
\* handle is None; otherwise the release succeeds and the handle is reset,
\* or it raises, the handle stays, and the except clause logs a warning
\* (an exception it does not catch leaves close() and replaces the one in
\* flight)
ReleaseStep(step) ==
    /\ cpc = step
    /\ IF ~handles[HandleOf(step)]
       THEN /\ cpc' = StepAfter(step)
            /\ UNCHANGED <<handles, releases, close_log, in_flight>>
       ELSE \/ /\ handles' = [handles EXCEPT ![HandleOf(step)] = FALSE]
               /\ releases' = Append(releases,
                                      [call |-> Len(close_log) + 1,
                                       handle |-> HandleOf(step), ok |-> TRUE])
               /\ cpc' = StepAfter(step)
               /\ UNCHANGED <<close_log, in_flight>>
            \/ \E e \in StepErrors :
                  /\ releases' = Append(releases,
                                         [call |-> Len(close_log) + 1,
                                          handle |-> HandleOf(step), ok |-> FALSE])
                  /\ IF CloseCatches(e)
                     THEN /\ cpc' = AfterFailedRelease(step)
                          /\ UNCHANGED <<close_log, in_flight>>
                     ELSE /\ cpc' = "idle"
                          /\ close_log' = Append(close_log,
                                 CloseEnded(Len(close_log) + 1, HandlesAtCall,
                                            handles, e))
                          /\ in_flight' = e
                  /\ UNCHANGED handles
    /\ UNCHANGED close_frame

\* close() returns None
CloseReturn ==
    /\ cpc = "done"
    /\ close_log' = Append(close_log,
                           CloseEnded(Len(close_log) + 1, HandlesAtCall, handles,
                                      "returned"))
    /\ cpc' = "idle"
    /\ UNCHANGED <<handles, releases, in_flight, close_frame>>

CloseNext ==
    \/ CloseBegin
    \/ \E step \in {"page", "context", "browser", "playwright"} : ReleaseStep(step)
    \/ CloseReturn

\* The handles an agent can have: _launch_browser sets them in the order
\* playwright, browser, context, page and close() resets them in the
\* opposite order. The caller is cleanup code with or without an exception
\* on its way out.
CloseInit ==
    /\ agent \in Services
    /\ \E n \in 0..4 : handles = [h \in 1..4 |-> h <= n]
    /\ in_flight \in {"None"} \cup StepErrors
    /\ cpc = "idle"
    /\ releases = <<>>
    /\ close_log = <<>>

\* ====================================================== the agents in main
\* await rapras_scraper.login(...): the only login() call of main
MainCallsLoginMutant(a) == a \in Services
MainCallsLogin(a) == a = "rapras"

\* process_sellers(seller_links, yahoo_scraper): the only agent whose
\* fetch_seller_products main has called
MainCallsFetch(a) == a = "yahoo"

\* The steps of the login() main awaits on an agent
LoginByMain ==
    /\ MainCallsLogin(agent)
    /\ fpc = "call"
    /\ LoginNext

\* A unit of process_sellers takes a permit
UnitAdmitted ==
    /\ MainCallsFetch(agent)
    /\ \E u \in Units : AcquireSemaphore(u)

\* A unit takes the lock; the fetch call of the unit before it has ended
UnitTakesLock ==
    /\ fpc = "call"
    /\ \E u \in Units : AcquireLock(u)

\* The unit holding the lock calls yahoo_scraper.fetch_seller_products
UnitCallsFetch ==
    /\ Fetching # {}
    /\ FetchCall

\* The steps of the fetch_seller_products call in flight
UnitFetchStep ==
    \/ FetchAttemptStart
    \/ FetchLoopExhausted
    \/ FetchLaunch
    \/ FetchGoto
    \/ FetchExtract
    \/ FetchBackoff

\* The call has returned the record: the unit settles with it
UnitFetchReturned ==
    /\ fpc = "f_done"
    /\ fetch_result = "seller_data"
    /\ \E u \in Units : FetchReturns(u)

\* The call has raised: the unit settles with None
UnitFetchRaised ==
    /\ fpc = "f_done"
    /\ fetch_result # "seller_data"
    /\ \E u \in Units : FetchRaises(u) /\ fetched'[u] = fetch_result

\* The locals of the ended call are gone; the agent keeps its handles
FetchCallOver ==
    /\ fpc = "f_done"
    /\ Fetching = {}
    /\ fpc' = "call"
    /\ fetch_attempt' = 0
    /\ fetch_result' = "running"
    /\ last_exception' = "None"
    /\ fetch_cause' = "None"
    /\ fetch_started' = 0
    /\ fetch_errors' = <<>>
    /\ fetch_sleeps' = <<>>
    /\ UNCHANGED <<handles, ctx_cookies, fetch_frame>>

AgentNext ==
    \/ LoginByMain
    \/ UnitAdmitted
    \/ UnitTakesLock
    \/ UnitCallsFetch
    \/ UnitFetchStep
    \/ UnitFetchReturned
    \/ UnitFetchRaised
    \/ FetchCallOver
    \/ GatherReturns

\* ================================================ classification in main
\* anime_filter.filter_sellers(seller_data_list): the call
MainFilterCall ==
    /\ mpc = "filter"
    /\ step_log' = Append(step_log, Event("filter", "begin"))
    /\ mpc' = "filter_wait"
    /\ UNCHANGED <<args, constructed, main_error, main_result, pvars,
                   close_calls, lvars, hvars, fvars, avars, rvars, zvars>>

\* The steps of filter_sellers while main is inside the call
FilterInMain == mpc = "filter_wait" /\ FilterNext

\* filter_sellers has ended: the final export is next, or its exception
\* leaves the try block
MainAfterFilter ==
    /\ mpc = "filter_wait"
    /\ apc = "done"
    /\ IF filter_result = "returned"
       THEN /\ step_log' = Append(step_log, Event("filter", "end"))
            /\ mpc' = "export_final"
            /\ UNCHANGED main_error
       ELSE MainRaises("filter", filter_result)
    /\ UNCHANGED <<args, constructed, main_result, pvars, close_calls,
                   lvars, hvars, fvars, avars, rvars, zvars>>

MainTailNext ==
    \/ MainFilterCall
    \/ FilterInMain
    \/ MainAfterFilter
    \/ MainExportFinal
    \/ MainCloseRapras
    \/ MainCloseYahoo

\* main after the intermediate export of the records of n sellers
AfterIntermediateExport(n) ==
    /\ mpc = "filter"
    /\ args \in {a \in RunArgs : ParseArgsReturns(a)}
    /\ constructed = {"rapras", "yahoo"}
    /\ step_log = <<Event("login", "begin"), Event("login", "end"),
                    Event("fetch_links", "begin"), Event("fetch_links", "end"),
                    Event("process", "begin"), Event("process", "end"),
                    Event("export_intermediate", "begin"),
                    Event("export_intermediate", "end")>>
    /\ main_error = "None"
    /\ main_result = "running"
    /\ seller_links = [i \in 1..n |-> i]
    /\ semaphore = MAX_CONCURRENT_SELLERS
    /\ scraper_lock = FALSE
    /\ upc = [u \in 1..n |-> "settled"]
    /\ fetched = [u \in 1..n |-> "ok"]
    /\ completed = [u \in 1..n |-> SellerData(u)]
    /\ ppc = "returned"
    /\ retval = [u \in 1..n |-> SellerData(u)]

\* ================================================================ specifications
\* Everything but login() at rest
QuietButLogin ==
    PipelineIdle /\ FetchIdle /\ MainIdle /\ FilterIdle /\ ParserIdle /\ RestIdle

\* A login() call of either agent, with nothing else running
InitLogin == LoginInit /\ QuietButLogin

SpecLogin == InitLogin /\ [][LoginNext]_vars

\* A process_sellers call, with nothing else running
InitPipeline ==
    /\ PipelineInit
    /\ LoginIdle /\ FetchIdle /\ MainIdle /\ FilterIdle /\ ParserIdle /\ RestIdle

SpecPipeline == InitPipeline /\ [][PipelineNext]_vars

\* The event loop runs every task that is ready: a unit waiting for a free
\* permit or a free lock is woken when one is released (the waiters of
\* asyncio.Semaphore and asyncio.Lock are queued first-in first-out), the
\* awaiter of gather is woken when gather is done, and every fetch call is
\* assumed to end.
PipelineFairness ==
    /\ \A u \in 1..MaxSellers :
          /\ WF_vars(u \in Units /\ AcquireSemaphore(u))
          /\ WF_vars(u \in Units /\ AcquireLock(u))
          /\ WF_vars(u \in Units /\ (FetchReturns(u) \/ FetchRaises(u)))
    /\ WF_vars(GatherReturns)
    /\ WF_vars(GatherRaises)

FairPipeline == InitPipeline /\ [][PipelineNext]_vars /\ PipelineFairness

\* A fetch_seller_products call on the marketplace agent, made either before
\* any login() or after a login() of that agent has ended
InitFetch ==
    /\ LoginInit
    /\ agent = "yahoo"
    /\ session_file["rapras"] = "absent"
    /\ session_file["yahoo"] \in {"absent", "c1"}
    /\ QuietButLogin

SpecFetch == InitFetch /\ [][FetchNext]_vars

\* A reply handed to the parser, with nothing else running
InitParser ==
    /\ ParserInit
    /\ PipelineIdle /\ LoginIdle /\ FetchIdle /\ MainIdle /\ FilterIdle /\ RestIdle

SpecParser == InitParser /\ [][ParserNext]_vars

\* A filter_sellers call, with nothing else running
InitFilter ==
    /\ FilterInit
    /\ PipelineIdle /\ LoginIdle /\ FetchIdle /\ MainIdle /\ ParserIdle /\ RestIdle

SpecFilter == InitFilter /\ [][FilterNext]_vars

InitTitle ==
    /\ TitleInit
    /\ PipelineIdle /\ LoginIdle /\ FetchIdle /\ MainIdle /\ ParserIdle /\ RestIdle

SpecTitle == InitTitle /\ [][FilterNext]_vars

\* A fetch_seller_links call on the aggregator agent, made either before any
\* login() or after a login() of that agent has ended
InitLinks ==
    /\ LoginInit
    /\ agent = "rapras"
    /\ session_file["yahoo"] = "absent"
    /\ session_file["rapras"] \in {"absent", "c1"}
    /\ QuietButLogin

SpecLinks == InitLinks /\ [][LinksNext]_vars

\* A fetch_seller_links call on the logged-in aggregator agent, whose page
\* shows any of the tables
InitRows ==
    /\ LoggedInRapras
    /\ RowsInit
    /\ PipelineIdle /\ FetchIdle /\ MainIdle /\ FilterIdle /\ ParserIdle
    /\ StoreIdle /\ ExportIdle /\ CloseIdle

SpecRows == InitRows /\ [][RowsNext]_vars

\* close() calls on one agent, nothing else running
InitClose ==
    /\ CloseInit
    /\ lpc = "idle"
    /\ attempt = 0
    /\ login_result = "running"
    /\ session_file = [svc \in Services |-> "absent"]
    /\ ctx_cookies = "empty"
    /\ proxy_obs = NoProxyObs
    /\ attempts_started = 0 /\ session_checks = 0 /\ proxy_checks = 0
    /\ entry_call = {} /\ entry_attempt = {}
    /\ sleeps = <<>> /\ failures = <<>> /\ save_calls = <<>>
    /\ store_access = {}
    /\ success_via = "none"
    /\ close_calls = <<>>
    /\ PipelineIdle /\ FetchIdle /\ MainIdle /\ FilterIdle /\ ParserIdle
    /\ StoreIdle /\ ExportIdle /\ LinksIdle

SpecClose == InitClose /\ [][CloseNext]_vars

\* Either agent as main has constructed it, with the seller links
\* process_sellers is called with
InitAgent ==
    /\ LoginInit
    /\ session_file["yahoo"] = "absent"
    /\ session_file["rapras"] \in {"absent", "c1"}
    /\ \E n \in 1..MaxLinksFound : seller_links = [i \in 1..n |-> i]
    /\ semaphore = MAX_CONCURRENT_SELLERS
    /\ scraper_lock = FALSE
    /\ upc = [u \in 1..Len(seller_links) |-> "start"]
    /\ fetched = [u \in 1..Len(seller_links) |-> "pending"]
    /\ completed = [u \in 1..Len(seller_links) |-> Pending]
    /\ ppc = "gathering"
    /\ retval = NoValue
    /\ FetchIdle /\ MainIdle /\ FilterIdle /\ ParserIdle /\ RestIdle

SpecAgent == InitAgent /\ [][AgentNext]_vars

\* main from the call of filter_sellers on, with the fetched records of one
\* or more sellers
InitMainTail ==
    /\ LoggedInRapras
    /\ FilterInit
    /\ Len(sellers) >= 1
    /\ AfterIntermediateExport(Len(sellers))
    /\ FetchIdle /\ ParserIdle /\ RestIdle

SpecMainTail == InitMainTail /\ [][MainTailNext]_vars

\* Export calls on the sellers argument, nothing else running
InitExport ==
    /\ ExportInit
    /\ PipelineIdle /\ LoginIdle /\ FetchIdle /\ MainIdle /\ FilterIdle /\ ParserIdle
    /\ StoreIdle /\ LinksIdle /\ CloseIdle

SpecExport == InitExport /\ [][ExportNext]_vars

\* filter_sellers followed by the final export, as in main
SpecClassify == InitFilter /\ [][ClassifyNext]_vars

\* Calls of the SessionManager on the session files found, nothing else
\* running
InitStore ==
    /\ StoreInit
    /\ PipelineIdle /\ LoginIdle /\ FetchIdle /\ MainIdle /\ FilterIdle /\ ParserIdle
    /\ ExportIdle /\ LinksIdle /\ CloseIdle

SpecStore == InitStore /\ [][StoreNext]_vars

\* A run of main: the aggregator agent's session file may or may not exist
InitMain ==
    /\ MainInit
    /\ args \in RunArgs
    /\ LoginInit
    /\ agent = "rapras"
    /\ session_file["yahoo"] = "absent"
    /\ session_file["rapras"] \in {"absent", "c1"}
    /\ PipelineIdle /\ FetchIdle /\ FilterIdle /\ ParserIdle /\ RestIdle

SpecMain == InitMain /\ [][MainNext]_vars

\* The start of main for every command line: parse_args, the configuration
\* and the construction of the agents
ArgsNext ==
    \/ MainParseArgs
    \/ MainLoadConfig
    \/ MainConstruct

InitArgs ==
    /\ MainInit
    /\ LoginInit
    /\ agent = "rapras"
    /\ session_file["yahoo"] = "absent"
    /\ session_file["rapras"] \in {"absent", "c1"}
    /\ PipelineIdle /\ FetchIdle /\ FilterIdle /\ ParserIdle /\ RestIdle

SpecArgs == InitArgs /\ [][ArgsNext]_vars

\* ======================================================== process_sellers
\* The records of the sellers whose fetch succeeded, in input order
RECURSIVE SuccessfulFrom(_)
SuccessfulFrom(u) ==
    IF u > Len(seller_links) THEN <<>>
    ELSE IF fetched[u] = "ok"
         THEN <<SellerData(seller_links[u])>> \o SuccessfulFrom(u + 1)
         ELSE SuccessfulFrom(u + 1)

\* C1: at every moment the number of units inside the semaphore block of
\* process_one_seller, and with it the number of fetch_seller_products calls
\* in flight, is at most MAX_CONCURRENT_SELLERS.
C1_ConcurrencyCap ==
    /\ Cardinality(Admitted) <= MAX_CONCURRENT_SELLERS
    /\ Cardinality(Fetching) <= MAX_CONCURRENT_SELLERS
    /\ semaphore = MAX_CONCURRENT_SELLERS - Cardinality(Admitted)

\* The cap is reached while a further unit waits for admission and a fetch
\* is in flight.
C1_Witness ==
    /\ Cardinality(Admitted) = MAX_CONCURRENT_SELLERS
    /\ Fetching # {}
    /\ \E u \in Units : upc[u] = "start"

\* C2: when process_sellers returns, its result is exactly the records of the
\* sellers whose fetch succeeded, one each, in input order, and every other
\* seller's fetch raised ConnectionError, TimeoutError or ValueError; when
\* only these three errors occur process_sellers does not raise.
C2_ExactlySuccessful ==
    /\ ppc = "returned" =>
          /\ retval = SuccessfulFrom(1)
          /\ \A u \in Units : fetched[u] \in {"ok"} \cup CaughtErrors
    /\ ppc = "raised" => \E u \in Units : fetched[u] \notin {"ok", "pending"} \cup CaughtErrors

\* A returned batch with failures of different kinds at the first and third
\* position and successes after each of them.
C2_Witness ==
    /\ ppc = "returned"
    /\ Len(seller_links) >= 4
    /\ fetched[1] = "ConnectionError" /\ fetched[3] = "TimeoutError"
    /\ fetched[2] = "ok" /\ fetched[4] = "ok"
    /\ Len(retval) = Len(seller_links) - 2

\* C3: process_sellers has returned only if every unit has settled (no fetch
\* in flight, no unit waiting for the semaphore or the lock, lock and permits
\* all free), and until it returns the caller has received nothing.
C3_ReturnsAfterAllSettled ==
    /\ ppc = "returned" =>
          /\ Settled = Units
          /\ Fetching = {} /\ Admitted = {}
          /\ ~scraper_lock /\ semaphore = MAX_CONCURRENT_SELLERS
    /\ ppc # "returned" => retval = NoValue

\* A full batch has returned with at least one record.
C3_Witness ==
    /\ ppc = "returned"
    /\ Len(seller_links) >= MAX_CONCURRENT_SELLERS + 1
    /\ retval # NoValue /\ Len(retval) >= 1

\* ================================================================ login()
ProxyPcs == {"call", "proxy_setup", "proxy_test", "proxy_ip_goto", "proxy_ip_read"}

\* Positions inside the try block of an attempt
AttemptPcs == {"restore", "restore_validate", "launch", "goto_login", "fill",
               "click", "sms_prompt", "fill_sms", "goto_auctions", "validate"}

\* _verify_proxy_connection has returned without raising
ProxyPassed ==
    /\ agent = "yahoo"
    /\ lpc \notin ProxyPcs
    /\ login_result # "ProxyAuthenticationError"

\* What the proxy check met makes it fail: no browser, endpoint not reached,
\* or an address read that is not the expected one
ProxyFailureObserved ==
    \/ proxy_obs.setup = "failed"
    \/ proxy_obs.reached = "no"
    \/ proxy_obs.ip = "obtained" /\ CurrentIp(proxy_obs.body) # expected_ip

\* C4: login() starts at most 3 attempts; until it has ended it can always
\* take a further step, and it ends in exactly one of: True, TimeoutError,
\* LoginError, or (marketplace agent, before the first attempt)
\* ProxyAuthenticationError.
C4_BoundedAttempts ==
    /\ attempts_started <= 3
    /\ Len(failures) <= attempts_started
    /\ lpc # "done" => login_result = "running" /\ ENABLED LoginNext
    /\ lpc = "done" =>
          /\ login_result \in {"True", "TimeoutError", "LoginError",
                              "ProxyAuthenticationError"}
          /\ login_result = "ProxyAuthenticationError" =>
                agent = "yahoo" /\ attempts_started = 0
          /\ login_result \in {"TimeoutError", "LoginError"} =>
                attempts_started = 3

\* login() has ended after three failed attempts.
C4_Witness ==
    /\ lpc = "done"
    /\ attempts_started = 3
    /\ Len(failures) = 3
    /\ login_result = "LoginError"

\* C5 as stated: a login() that succeeds through session restoration has
\* executed no credential-entry step anywhere in that call.
C5_NoEntryInCall ==
    success_via = "restore" => entry_call = {}

\* C5 amended: when restoration and validation of a stored session succeed,
\* login() returns True at once and no credential-entry step has been
\* executed in that attempt.
C5_NoEntryInAttempt ==
    success_via = "restore" =>
        /\ lpc = "done" /\ login_result = "True"
        /\ entry_attempt = {}
        /\ session_exists(agent)

\* Restoration succeeds in the second attempt, after a first attempt that
\* went through credential entry.
C5_Witness ==
    /\ success_via = "restore"
    /\ login_result = "True"
    /\ attempts_started = 2
    /\ entry_call # {}

\* C6 as stated: whenever login() has returned True, a save_session call of
\* this login() stored the context's cookies under the agent's service name.
C6_SavedOnEverySuccess ==
    login_result = "True" =>
        \E i \in 1..Len(save_calls) : save_calls[i] = <<agent, ctx_cookies>>

\* C6 amended: when login() has returned True after a fresh login it has
\* called save_session exactly once, with its own service name and the
\* context's current cookie set; a success through session restoration
\* makes no save_session call.
C6_SavedOnFreshSuccess ==
    /\ login_result = "True" /\ success_via = "fresh" =>
          save_calls = << <<agent, ctx_cookies>> >>
    /\ login_result = "True" /\ success_via = "restore" => save_calls = <<>>
    /\ login_result # "True" => save_calls = <<>>

\* The marketplace agent succeeds by a fresh login with site-set cookies.
C6_Witness ==
    /\ login_result = "True"
    /\ success_via = "fresh"
    /\ agent = "yahoo"
    /\ save_calls = << <<"yahoo", "c2">> >>

\* C7: when login() raises after its attempts are used up, it raises
\* TimeoutError exactly when the last attempt ended in a TimeoutError, and
\* LoginError exactly when it ended in a validation failure or any other
\* exception.
C7_ErrorDistinguishesCause ==
    lpc = "done" /\ login_result \in {"TimeoutError", "LoginError"} =>
        /\ Len(failures) = 3
        /\ login_result = "TimeoutError" <=> failures[3] = "TimeoutError"
        /\ login_result = "LoginError" <=> failures[3] \in {"validation", "Exception"}

\* TimeoutError raised after earlier failures of the other kinds.
C7_Witness ==
    /\ lpc = "done"
    /\ login_result = "TimeoutError"
    /\ failures = <<"validation", "Exception", "TimeoutError">>

C9_ProxyFailureIsImmediate ==
    /\ agent = "yahoo" /\ lpc # "call" => proxy_checks = 1
    /\ agent = "rapras" => proxy_checks = 0
    /\ agent = "yahoo" /\ (attempts_started > 0 \/ session_checks > 0) => ProxyPassed
    /\ ProxyFailureObserved =>
          /\ lpc = "done"
          /\ login_result = "ProxyAuthenticationError"
          /\ attempts_started = 0
          /\ session_checks = 0
          /\ entry_call = {}
          /\ sleeps = <<>>

\* The proxy check has failed on an address mismatch.
C9_Witness ==
    /\ login_result = "ProxyAuthenticationError"
    /\ proxy_obs.ip = "obtained"
    /\ proxy_obs.body = <<"10.0.0.1">>

\* C10 as stated: the proxy check raises on every failure, and returns
\* normally only when the endpoint was reached and the observed address
\* equals the expected one.
C10_StrictCheck ==
    /\ ProxyPassed =>
          /\ proxy_obs.reached = "yes"
          /\ proxy_obs.ip = "obtained"
          /\ CurrentIp(proxy_obs.body) = expected_ip
    /\ (proxy_obs.setup = "failed" \/ proxy_obs.reached = "no"
          \/ proxy_obs.ip = "failed"
          \/ (proxy_obs.ip = "obtained" /\ CurrentIp(proxy_obs.body) # expected_ip))
          => login_result = "ProxyAuthenticationError"

\* C10 amended: the proxy check raises ProxyAuthenticationError exactly when
\* the throwaway browser cannot be set up, the test endpoint cannot be
\* reached, or the address read from the IP endpoint (stripped; empty when
\* there is no body) differs from the expected one. When the address cannot
\* be obtained (the request or the read raises) the check returns normally.
\* It returns normally only when the endpoint was reached and the address,
\* if one was obtained, equals the expected one.
C10_LenientCheck ==
    /\ ProxyPassed =>
          /\ proxy_obs.setup = "ok" /\ proxy_obs.reached = "yes"
          /\ \/ proxy_obs.ip = "failed"
             \/ proxy_obs.ip = "obtained" /\ CurrentIp(proxy_obs.body) = expected_ip
    /\ login_result = "ProxyAuthenticationError" <=> ProxyFailureObserved
    /\ proxy_obs.ip = "failed" => login_result # "ProxyAuthenticationError"

\* The check has returned normally although the address could not be
\* obtained.
C10_Witness ==
    /\ ProxyPassed
    /\ proxy_obs.ip = "failed"
    /\ attempts_started = 1

\* What the session store answers about a service
StoreAnswers(svc) ==
    <<session_exists(svc), load_session(svc, TRUE), load_session(svc, FALSE)>>

\* The files of two services are two files
DistinctFiles ==
    \A svc \in Services : \A other \in Services \ {svc} :
        SessionFile(svc) # SessionFile(other)

\* save_session and delete_session for svc leave the file of every other
\* service as it is
OthersKept(svc) ==
    \A other \in Services \ {svc} :
        /\ \A unlinked \in BOOLEAN :
              delete_session(svc, unlinked)[other] = session_file[other]
        /\ \A cookies \in CookieSets \cup {"empty"}, write_end \in WriteEndKinds :
              save_session(svc, cookies, write_end)[other] = session_file[other]

\* C24: the session store is partitioned by service name: no step of a
\* login() changes what session_exists and load_session answer for a service
\* other than the agent's own, every SessionManager call a login() makes
\* names the agent's own service ('rapras' for the aggregator agent, 'yahoo'
\* for the marketplace agent), and save_session and delete_session of one
\* service leave the file of every other service untouched.
C24_PartitionedByService ==
    /\ [][\A other \in Services \ {agent} :
             StoreAnswers(other)' = StoreAnswers(other)]_vars
    /\ [](store_access \subseteq
             {"session_exists", "load_session", "save_session"} \X {agent})
    /\ [](DistinctFiles /\ \A svc \in Services : OthersKept(svc))

\* The marketplace agent's login() has tested, loaded and saved its own
\* session while a session of the aggregator agent is stored.
C24_Witness ==
    /\ lpc = "done"
    /\ agent = "yahoo"
    /\ store_access = {"session_exists", "load_session", "save_session"} \X {"yahoo"}
    /\ session_file["rapras"] = "c1"
    /\ session_file["yahoo"] = "c2"

\* The stored session of the agent's service cannot be used
Unusable == session_file[ServiceName(agent)] \notin CookieSets

\* C25: session I/O failures never fail a login: when _restore_session does
\* not hand a restored session to validation (the file is corrupt, cannot be
\* decoded or read, or holds an empty list), login() goes on to the browser
\* launch of a fresh login in the same attempt with no failure recorded, and
\* an unusable file always ends so; a save_session call after a validated
\* fresh login is followed by login() returning True however the write ends.
C25_SessionIoNeverFailsLogin ==
    /\ [][lpc = "restore" =>
            \/ lpc' = "restore_validate" /\ ~Unusable
            \/ /\ lpc' = "launch"
               /\ attempt' = attempt
               /\ failures' = failures
               /\ login_result' = "running"]_vars
    /\ [][save_calls' # save_calls =>
            lpc' = "done" /\ login_result' = "True"]_vars

\* login() has returned True in its first attempt although the session file
\* it found could not be used and the write of the new one was cut short.
C25_Witness ==
    /\ lpc = "done"
    /\ login_result = "True"
    /\ attempts_started = 1
    /\ failures = <<>>
    /\ <<"load_session", ServiceName(agent)>> \in store_access
    /\ Len(save_calls) = 1
    /\ session_file[ServiceName(agent)] = "corrupt"

\* ================================================== fetch_seller_products
\* Positions inside the try block of an attempt of fetch_seller_products
FetchAttemptPcs == {"f_launch", "f_goto", "f_extract"}

\* C11: fetch_seller_products starts at most 3 attempts; it returns the
\* record of the first attempt that succeeds (every earlier attempt failed)
\* and starts no attempt after that; when 3 attempts have failed it raises
\* ConnectionError whose cause is the exception of the third attempt; its
\* loop counter starts at 0 whatever the login loop did, and neither loop
\* touches the other's counter.
C11_FetchAttempts ==
    /\ [](/\ fetch_started <= 3
          /\ Len(fetch_errors) <= fetch_started
          /\ fetch_result \in {"running", "seller_data", "ConnectionError"}
          /\ fpc = "f_done" <=> fetch_result # "running"
          /\ fpc \in FetchAttemptPcs =>
                fetch_attempt = fetch_started - 1 /\ Len(fetch_errors) = fetch_attempt
          /\ fetch_result = "seller_data" =>
                Len(fetch_errors) = fetch_started - 1 /\ fetch_cause = "None"
          /\ Len(fetch_errors) = 3 => fetch_result \in {"running", "ConnectionError"}
          /\ fetch_result = "ConnectionError" =>
                /\ fetch_started = 3
                /\ Len(fetch_errors) = 3
                /\ fetch_cause = fetch_errors[3]
                /\ fetch_cause \in StepErrors)
    /\ [][/\ fetch_result # "running" => fetch_started' = fetch_started
          /\ fpc # "call" => attempt' = attempt /\ attempts_started' = attempts_started
          /\ fpc = "call" => fetch_attempt' = fetch_attempt
                              /\ fetch_started' = fetch_started]_vars

\* Three failed attempts, the last by another exception than the first two,
\* in a fetch made after a login() that had needed two attempts.
C11_Witness ==
    /\ fetch_result = "ConnectionError"
    /\ fetch_errors = <<"TimeoutError", "TimeoutError", "Exception">>
    /\ fetch_cause = "Exception"
    /\ lpc = "done" /\ attempts_started = 2

\* C12: fetch_seller_products waits 1 second after its first failed attempt
\* and 2 seconds after its second (schedule [1, 2, 4]) and does not wait
\* after the third: a call whose three attempts all fail has made exactly
\* the waits 1 then 2.
C12_WaitsOneThenTwo ==
    /\ \A k \in 1..Len(fetch_sleeps) : fetch_sleeps[k] = <<1, 2, 4>>[k]
    /\ Len(fetch_sleeps) <= 2
    /\ fetch_result = "ConnectionError" => fetch_sleeps = <<1, 2>>

\* ================================================================ main
\* The steps of the try block of main, in program order
StepOrder == <<"login", "fetch_links", "process", "export_intermediate",
               "filter", "export_final">>

\* The steps main has begun, in the order it began them
Begun == SelectSeq(step_log, LAMBDA x : x.ev = "begin")

HasBegun(s) == \E i \in 1..Len(step_log) : step_log[i] = Event(s, "begin")

\* C13: in every run of main the steps begin in the order login, link
\* discovery, per-seller fetch, intermediate export, classification, final
\* export; a step begins only right after the previous one has returned
\* (login() has ended with True before link discovery begins, process_sellers
\* has returned with every unit settled before the intermediate export
\* begins, and nothing else of main happens while either is running); the
\* final export begins only after the intermediate export has returned.
C13_StepOrder ==
    /\ Len(Begun) <= Len(StepOrder)
    /\ \A i \in 1..Len(Begun) : Begun[i].step = StepOrder[i]
    /\ \A i \in 1..Len(step_log) :
          /\ step_log[i].ev = "begin" /\ i > 1 => step_log[i - 1].ev = "end"
          /\ step_log[i].ev \in {"end", "raise"} =>
                i > 1 /\ step_log[i - 1] = Event(step_log[i].step, "begin")
          /\ step_log[i] = Event("export_final", "begin") =>
                \E j \in 1..(i - 1) : step_log[j] = Event("export_intermediate", "end")
    /\ lpc \notin {"call", "done"} => step_log = <<Event("login", "begin")>>
    /\ HasBegun("fetch_links") => lpc = "done" /\ login_result = "True"
    /\ ppc = "gathering" => step_log[Len(step_log)] = Event("process", "begin")
    /\ HasBegun("export_intermediate") =>
          ppc = "returned" /\ GatherDone /\ retval # <<>>

\* A run that went through all six steps and returned.
C13_Witness ==
    /\ mpc = "done"
    /\ main_result = "returned"
    /\ Len(Begun) = 6
    /\ Len(seller_links) = 2 /\ Len(retval) = 1

\* The close() calls main itself has made
MainCloses == SelectSeq(close_calls, LAMBDA c : c.by = "main")

\* The agents close() has been called on, in call order
ClosedAgents == [i \in 1..Len(close_calls) |-> close_calls[i].on]

BothConstructed == constructed = {"rapras", "yahoo"}

\* C14 as stated: on every termination path of main after the two agents
\* have been constructed, close() has been called exactly once on the
\* aggregator agent and then exactly once on the marketplace agent.
C14_ClosedExactlyOnce ==
    mpc = "done" /\ BothConstructed => ClosedAgents = <<"rapras", "yahoo">>

\* C14 amended: on every termination path of main after the two agents have
\* been constructed (normal completion, early return, any raised error) the
\* cleanup of main calls close() exactly once on the aggregator agent and
\* then exactly once on the marketplace agent, as its last two steps, and
\* what main ends with is the error that was raised, if any. Before the
\* cleanup main calls no close(); the login() of the aggregator agent may
\* have called close() on that agent, at most once per attempt.
C14_CleanupClosesOnce ==
    /\ mpc = "done" /\ BothConstructed =>
          /\ MainCloses = <<CloseCall("main", "rapras"), CloseCall("main", "yahoo")>>
          /\ Len(close_calls) >= 2
          /\ SubSeq(close_calls, Len(close_calls) - 1, Len(close_calls)) = MainCloses
          /\ main_result = IF main_error = "None" THEN "returned" ELSE main_error
          /\ main_error # "None" <=> step_log[Len(step_log)].ev = "raise"
          /\ step_log[Len(step_log)] = Event("login", "raise") =>
                main_result = login_result
          /\ step_log[Len(step_log)] = Event("process", "raise") =>
                \E u \in Units : completed[u].kind = main_result
    /\ mpc \notin {"finally_yahoo", "done"} => MainCloses = <<>>
    /\ mpc = "finally_yahoo" => MainCloses = <<CloseCall("main", "rapras")>>
    /\ \A i \in 1..Len(close_calls) :
          close_calls[i].by = "login" => close_calls[i].on = "rapras"
    /\ Len(close_calls) - Len(MainCloses) <= attempts_started
    /\ mpc = "done" /\ ~BothConstructed => close_calls = <<>>

\* A run in which login() discarded a restored session, and a later step
\* raised.
C14_Witness ==
    /\ mpc = "done"
    /\ main_result = "RuntimeError"
    /\ close_calls = <<CloseCall("login", "rapras"), CloseCall("main", "rapras"),
                       CloseCall("main", "yahoo")>>

\* C15: when the aggregator login has raised (after 3 attempts), main ends
\* with that same error and none of the later steps has happened: no link
\* discovery, no per-seller fetch, no export and no classification.
C15_LoginFailureEndsRun ==
    lpc = "done" /\ login_result # "True" =>
        /\ login_result \in {"TimeoutError", "LoginError"}
        /\ attempts_started = 3
        /\ \A i \in 1..Len(step_log) : step_log[i].step = "login"
        /\ seller_links = <<>> /\ upc = <<>> /\ retval = <<>>
        /\ mpc \in {"login_wait", "finally_rapras", "finally_yahoo", "done"}
        /\ mpc # "login_wait" => main_error = login_result
        /\ mpc = "done" => main_result = login_result

\* main has ended with the TimeoutError of a login() that used up its
\* attempts.
C15_Witness ==
    /\ mpc = "done"
    /\ main_result = "TimeoutError"
    /\ login_result = "TimeoutError"
    /\ attempts_started = 3
    /\ step_log = <<Event("login", "begin"), Event("login", "raise")>>

\* ================================================================ parse_args
\* A date text in the form YYYY-MM-DD: four, two and two digits, naming a
\* day of the calendar
WellFormedDate(t) ==
    /\ Len(t) = 3
    /\ t[1].w = 4 /\ t[2].w = 2 /\ t[3].w = 2
    /\ CalendarDate(t)

\* A date text of a four-digit year and a month and a day of one or two
\* digits each, naming a day of the calendar
ReadableDate(t) ==
    /\ Len(t) = 3
    /\ t[1].w = 4 /\ t[2].w \in {1, 2} /\ t[3].w \in {1, 2}
    /\ CalendarDate(t)

\* The first date is not later than the second
NotLater(t1, t2) ==
    \/ t1[1].v < t2[1].v
    \/ t1[1].v = t2[1].v /\ t1[2].v < t2[2].v
    \/ t1[1].v = t2[1].v /\ t1[2].v = t2[2].v /\ t1[3].v <= t2[3].v

\* Nothing of the run has happened: no agent, no login step, no browser, no
\* step of the workflow
NothingStarted ==
    /\ constructed = {}
    /\ lpc = "call" /\ attempts_started = 0 /\ session_checks = 0
    /\ handles = NoHandles
    /\ step_log = <<>> /\ close_calls = <<>>
    /\ seller_links = <<>>

\* C16 as stated: parse_args accepts iff both dates are well-formed
\* YYYY-MM-DD, start-date <= end-date and min-price >= 0; otherwise the
\* process exits before anything of the run has happened.
C16_AcceptsIffWellFormed ==
    mpc # "parse_args" =>
        /\ main_result # "exit" <=>
              /\ WellFormedDate(args.start_date) /\ WellFormedDate(args.end_date)
              /\ NotLater(args.start_date, args.end_date)
              /\ args.min_price >= 0
        /\ main_result = "exit" => mpc = "done" /\ NothingStarted

\* C16 amended: parse_args accepts iff both dates can be read with the
\* format %Y-%m-%d (a four-digit year, a month and a day of one or two
\* digits, naming a calendar day: 2025-8-1 is accepted like 2025-08-01),
\* start-date <= end-date and min-price >= 0; otherwise the process exits
\* with a non-zero status before any agent is created, any login is
\* attempted or any browser is started.
C16_AcceptsIffReadable ==
    mpc # "parse_args" =>
        /\ main_result # "exit" <=>
              /\ ReadableDate(args.start_date) /\ ReadableDate(args.end_date)
              /\ NotLater(args.start_date, args.end_date)
              /\ args.min_price >= 0
        /\ main_result = "exit" => mpc = "done" /\ NothingStarted

\* start=2025-10-31, end=2025-08-01 has been rejected.
C16_Witness ==
    /\ args.start_date = DateText(2025, 10, 2, 31, 2)
    /\ args.end_date = DateText(2025, 8, 2, 1, 2)
    /\ args.min_price = 0
    /\ main_result = "exit"
    /\ NothingStarted

\* ================================================== AnimeFilter.filter_sellers
\* The titles of the seller being classified
CurrentTitles == sellers[si].product_titles

\* The seller's entry has been appended and the next seller not yet begun
SellerClassified == si >= 1 /\ apc \in {"seller", "done"} /\ Len(filtered) = si

\* Index of the first title of the current seller that was classified
\* positive (0: none so far)
FirstPositive ==
    IF \E k \in 1..Len(verdicts) : verdicts[k] = "positive"
    THEN CHOOSE k \in 1..Len(verdicts) :
            /\ verdicts[k] = "positive"
            /\ \A m \in 1..(k - 1) : verdicts[m] # "positive"
    ELSE 0

\* The titles up to index k that are not empty after truncation
NonEmptyUpTo(k) == {j \in 1..k : ~EmptyTitle(CurrentTitles[j])}

\* C17 as stated: once one of the seller's titles is classified positive no
\* later title of that seller is submitted to the tool, and the number of
\* tool invocations made for that seller equals the 1-based index of the
\* first positive title.
C17_CallsEqualIndex ==
    si >= 1 /\ FirstPositive # 0 =>
        /\ \A j \in 1..Len(tool_calls) : tool_calls[j] <= FirstPositive
        /\ Len(tool_calls) = FirstPositive

\* C17 amended: once one of the seller's titles is classified positive no
\* later title of that seller is checked or submitted to the tool; the
\* positive title is the last one submitted, and the number of tool
\* invocations made for that seller equals the number of titles up to and
\* including the first positive one that are not empty after truncation (an
\* empty title is classified negative without an invocation); it equals the
\* 1-based index of the first positive title when none of the earlier titles
\* is empty.
C17_CallsEqualNonEmptyIndex ==
    /\ si >= 1 /\ FirstPositive # 0 =>
          /\ FirstPositive = Len(verdicts) /\ ti = FirstPositive
          /\ is_anime_seller
          /\ tool_calls[Len(tool_calls)] = FirstPositive
          /\ \A j \in 1..Len(tool_calls) : tool_calls[j] <= FirstPositive
          /\ Len(tool_calls) = Cardinality(NonEmptyUpTo(FirstPositive))
          /\ NonEmptyUpTo(FirstPositive) = 1..FirstPositive =>
                Len(tool_calls) = FirstPositive
    /\ si >= 1 =>
          /\ \A j \in 1..Len(tool_calls) :
                tool_calls[j] \in NonEmptyUpTo(ti)
                /\ \A k \in 1..(j - 1) : tool_calls[k] < tool_calls[j]
          /\ Len(verdicts) \in {ti - 1, ti}

\* A seller whose first title is blank and whose second title was classified
\* positive: one invocation, first positive index 2.
C17_Witness ==
    /\ SellerClassified
    /\ Len(CurrentTitles) = 2
    /\ EmptyTitle(CurrentTitles[1])
    /\ verdicts = <<"negative", "positive">>
    /\ tool_calls = <<2>>
    /\ filtered[si].is_anime_seller

C19_ErrorsAreSkipped ==
    /\ filter_result # "GeminiAPIError"
    /\ Len(filtered) <= Len(sellers)
    /\ \A j \in 1..Len(filtered) : filtered[j].seller_name = sellers[j].seller_name
    /\ filter_result = "returned" => Len(filtered) = Len(sellers)
    /\ \A k \in 1..Len(verdicts) :
          verdicts[k] \in {"positive", "negative", "GeminiAPIError"}
    /\ SellerClassified =>
          /\ filtered[si].is_anime_seller <=>
                \E k \in 1..Len(verdicts) :
                    /\ verdicts[k] = "positive"
                    /\ \A m \in 1..(k - 1) : verdicts[m] \in {"negative", "GeminiAPIError"}
          /\ ~filtered[si].is_anime_seller => Len(verdicts) = Len(CurrentTitles)
    /\ apc = "title" /\ ti >= 1 /\ verdicts[ti] = "GeminiAPIError" =>
          ENABLED FilterNextTitle

\* filter_sellers has returned two entries for two sellers; the first title
\* of the second seller raised a classification error, its second title was
\* then submitted and classified positive, and the seller is marked positive.
C19_Witness ==
    /\ filter_result = "returned"
    /\ Len(sellers) = 2
    /\ Len(filtered) = 2
    /\ si = 2
    /\ verdicts = <<"GeminiAPIError", "positive">>
    /\ tool_calls = <<1, 2>>
    /\ filtered[2].is_anime_seller

\* ============================================================ SessionManager
\* The file of the service holds what some save_session call wrote in full
Intact(svc) ==
    /\ SessionExists(svc)
    /\ \E c \in CookieLists : store[SessionFile(svc)].bytes = SessionBytes(c)

\* The last call was load_session and no OSError was caught inside it
Loaded(svc) ==
    store_ret.op = "load_session" /\ store_ret.service = svc /\ ~store_ret.oserror

\* C22 as stated: save_session(service, cookies) followed by load_session
\* returns a cookie list equal to the saved one; load_session for a service
\* with no stored file, or whose stored file is corrupted, returns None and
\* never raises.
C22_RoundTripAndAbsent ==
    \A svc \in Services :
        /\ Loaded(svc) /\ last_saved[svc].known /\ last_saved[svc].value # PyNone =>
               store_ret.raised = "None" /\ store_ret.value = last_saved[svc].value
        /\ Loaded(svc) /\ ~Intact(svc) =>
               store_ret.raised = "None" /\ store_ret.value = PyNone

\* C23: after save, load and delete calls that went through, load_session
\* returns the cookie list of the most recent save of that service that no
\* delete followed, and the file holds the bytes of that list and nothing
\* else; after delete_session, session_exists is False and load_session
\* returns None.
C23_LastSaveWins ==
    \A svc \in Services :
        /\ Loaded(svc) /\ last_saved[svc].known =>
               store_ret.raised = "None" /\ store_ret.value = last_saved[svc].value
        /\ last_saved[svc].known /\ last_saved[svc].value # PyNone =>
               /\ SessionExists(svc)
               /\ store[SessionFile(svc)].bytes = SessionBytes(last_saved[svc].value)
               /\ LoadSession(svc, TRUE).value = last_saved[svc].value
        /\ last_saved[svc] = Stored(PyNone) =>
               /\ ~SessionExists(svc)
               /\ LoadSession(svc, TRUE) = Returned("load_session", svc, PyNone)

\* load_session('rapras') has returned the list of one cookie whose name is
\* outside ASCII, which a save_session call had written over the file found
C23_Witness ==
    /\ Loaded("rapras")
    /\ last_saved["rapras"] = Stored(PyList(<<Cookie(<<"U+3042">>, FALSE)>>))
    /\ store_ret.value = PyList(<<Cookie(<<"U+3042">>, FALSE)>>)
    /\ last_saved["yahoo"] = Stored(PyNone)

\* ================================================= AnimeFilter.is_anime_title
\* The title has no character other than whitespace (the empty title too)
Blank(title) == \A c \in 1..Len(title) : title[c] \in Whitespace

\* C21: is_anime_title on a title that is empty after truncation to its first
\* two whitespace-separated tokens, which is an empty or whitespace-only
\* title, returns False without invoking the external tool.
C21_EmptyTitleIsNegative ==
    /\ \A t \in TitleTexts : EmptyTitle(t) <=> Blank(t)
    /\ si >= 1 =>
          \A k \in 1..Len(verdicts) :
              Blank(CurrentTitles[k]) =>
                  /\ verdicts[k] = "negative"
                  /\ \A j \in 1..Len(tool_calls) : tool_calls[j] # k
    /\ si >= 1 =>
          \A k \in 1..ti :
              ~Blank(CurrentTitles[k]) => \E j \in 1..Len(tool_calls) : tool_calls[j] = k

\* is_anime_title has returned False for a title of a blank and a line break,
\* and the tool was not started
C21_Witness ==
    /\ si = 1
    /\ CurrentTitles = << <<" ", "\n">> >>
    /\ verdicts = <<"negative">>
    /\ tool_calls = <<>>
    /\ filtered = <<[seller_name |-> 1, seller_url |-> <<>>, is_anime_seller |-> FALSE]>>

\* ==================================================== _parse_gemini_response
\* The text has the token somewhere: it is some prefix, the token, some suffix
HasToken(tok, text) ==
    \E n \in 0..Len(text) :
        /\ n + Len(tok) <= Len(text)
        /\ \A k \in 1..Len(tok) : text[n + k] = tok[k]

\* C20: the reply parser returns positive iff the reply contains none of the
\* negative tokens 'iie', 'dewaarimasen', 'dewanai' and contains the
\* affirmative token 'hai' or the keyword 'ANIME'; every other reply, one
\* with both an affirmative and a negative token included, is negative.
C20_ParserVerdict ==
    parsed # <<>> =>
        /\ parsed[1] \in BOOLEAN
        /\ parsed[1] <=>
              /\ ~HasToken(IIE, response)
              /\ ~HasToken(DEWAARIMASEN, response)
              /\ ~HasToken(DEWANAI, response)
              /\ HasToken(HAI, response) \/ HasToken(ANIME, response)
        /\ HasToken(HAI, response) /\ HasToken(IIE, response) => parsed[1] = FALSE

\* The reply 'ANIME dewanai .' (keyword and negative token) has been parsed
\* as negative.
C20_Witness ==
    /\ response = ANIME \o DEWANAI \o <<".">>
    /\ parsed = <<FALSE>>


\* ================================================================ CSVExporter
\* The items of the sellers argument and the lines written after the header
ExportedItems == export_arg[2]
DataRows == Tail(export_ret.csv)

\* The item is a dict with the two keys every export reads
ProperRecord(item) ==
    /\ item[1] = "dict"
    /\ HasKey(item, "seller_name")
    /\ HasKey(item, "seller_url")

\* The argument is None, or one of its items is no dict or lacks a key
InvalidSellers ==
    \/ export_arg = PyNone
    \/ \E i \in 1..Len(ExportedItems) : ~ProperRecord(ExportedItems[i])

C27_ExportRows ==
    /\ export_ret.op # "none" /\ ~InvalidSellers =>
          export_ret.raised \in {"None", "OSError"}
    /\ export_ret.written =>
          /\ export_ret.raised = "None"
          /\ export_ret.csv[1] = Columns
          /\ Len(DataRows) = Len(ExportedItems)
          /\ \A i \in 1..Len(ExportedItems) :
                LET flag == Get(ExportedItems[i], "is_anime_seller") IN
                /\ DataRows[i][1] = Get(ExportedItems[i], "seller_name")[2]
                /\ DataRows[i][2] = Get(ExportedItems[i], "seller_url")[2]
                /\ export_ret.op = "intermediate" => DataRows[i][3] = MIHANTEI
                /\ export_ret.op = "final" =>
                      /\ flag = PyBool(TRUE) => DataRows[i][3] = HAI
                      /\ flag = PyBool(FALSE) => DataRows[i][3] = IIE
                      /\ flag = PyNone => DataRows[i][3] = MIHANTEI

\* The final export of a record flagged False and a record without a flag
\* has written 'iie' and 'mihantei', in that order.
C27_Witness ==
    /\ export_ret.op = "final"
    /\ export_arg = PyList(<<Flagged(SellerDict(<<"s", "1">>, <<"u", "1">>),
                                     PyBool(FALSE)),
                             SellerDict(<<"s", "3">>, <<"u", "3">>)>>)
    /\ export_ret.csv = <<Columns,
                          << <<"s", "1">>, <<"u", "1">>, IIE >>,
                          << <<"s", "3">>, <<"u", "3">>, MIHANTEI >> >>

\* C28 as stated: export_intermediate_csv and export_final_csv raise
\* ValueError and write no CSV file when the sellers argument is None, when
\* an item is not a dict, or when an item lacks seller_name or seller_url
\* (the output directory could be made).
C28_InvalidInputIsValueError ==
    export_ret.op # "none" /\ export_ret.output_dir /\ InvalidSellers =>
        /\ export_ret.raised = "ValueError"
        /\ ~export_ret.written


\* ======================================================== fetch_seller_links
\* A date is no YYYY-MM-DD date, the start is after the end, or the price
\* floor is negative
InvalidLinksArgs(call) ==
    \/ ~WellFormedDate(call.start_date)
    \/ ~WellFormedDate(call.end_date)
    \/ ~NotLater(call.start_date, call.end_date)
    \/ call.min_price < 0

\* C29 as stated: fetch_seller_links, called on a logged-in agent, raises
\* ValueError and performs no page navigation when start_date or end_date is
\* not a valid YYYY-MM-DD date, when start_date > end_date, or when
\* min_price < 0.
C29_InvalidArgsAreRejected ==
    kpc # "idle" /\ links_call.logged_in /\ InvalidLinksArgs(links_call) =>
        /\ kpc = "done"
        /\ links_result = "ValueError"
        /\ navigations = 0

\* C30 as stated: fetch_seller_links requires a prior successful login on
\* the same agent: it raises RuntimeError and performs no navigation both
\* when the agent has no page (login was never called) and when it has a
\* page but no login() on it has succeeded.
C30_RequiresLogin ==
    kpc # "idle" /\ ~links_call.logged_in =>
        /\ kpc = "done"
        /\ links_result = "RuntimeError"
        /\ navigations = 0


\* The number a price text of the tables stands for once ',' and 'en' are
\* taken out (no entry: the text is no number)
StatedPrices ==
    {<< <<"1">>, 1 >>, << <<"2">>, 2 >>, << <<"1", ",", "0", "en">>, 10 >>,
     << <<" ", "-", "1">>, 0 - 1 >>}

\* The row has a name, a link and a price that parses and reaches the floor,
\* and reading it raises nothing
KeptRow(row) ==
    /\ row.has_name /\ row.has_price /\ row.has_link
    /\ row.error = "None"
    /\ \E sp \in StatedPrices :
          sp[1] = row.price_text /\ sp[2] >= links_call.min_price

\* The dict fetch_seller_links appends for a row that is kept
KeptItem(row) ==
    [seller_name |-> row.name,
     total_price |-> (CHOOSE sp \in StatedPrices : sp[1] = row.price_text)[2],
     link |-> row.href]

\* C31: for every results table and every min_price, fetch_seller_links
\* returns, in table order, exactly the rows that have a seller name, a
\* seller link and a parsed total price >= min_price: a price equal to
\* min_price is kept, a lower one is not, and a row whose price is no number
\* is skipped while the later rows are still scanned.
C31_RowsAtOrAboveFloor ==
    links_result = "returned" =>
        LET kept == SelectSeq(results_table, KeptRow) IN
        /\ links_found = [i \in 1..Len(kept) |-> KeptItem(kept[i])]
        /\ \A i \in 1..Len(links_found) :
              links_found[i].total_price >= links_call.min_price

\* With min_price = 2, the table of a row whose price is no number followed
\* by a row of price 2 has given the list of the second row alone.
C31_Witness ==
    /\ links_result = "returned"
    /\ links_call.min_price = 2
    /\ results_table = <<SellerRow("5", <<"en", "x">>), SellerRow("2", <<"2">>)>>
    /\ links_found = <<[seller_name |-> <<"s", "2">>, total_price |-> 2,
                        link |-> PyStr(<<"l", "2">>)]>>


\* ------------------------------------------------------------------ close()
\* The release steps close() call number n has executed, in order
ReleasesOf(n) == SelectSeq(releases, LAMBDA r : r.call = n)

\* The steps of one call came in the order page, context, browser, driver
InCloseOrder(rs) ==
    \A i \in 1..Len(rs), j \in 1..Len(rs) :
        i < j => StepIndexOfHandle(rs[i].handle) < StepIndexOfHandle(rs[j].handle)

\* C32: close() on either agent releases page, context, browser and the
\* automation driver in that order and never raises: every close() call
\* ends by returning, whatever its release steps raised, and the exception
\* on its way out of the code that called close() is the same before and
\* after the call.
C32_CloseNeverRaises ==
    /\ [](/\ \A n \in 1..Len(close_log) : close_log[n].outcome = "returned"
          /\ \A n \in 1..MaxCloseCalls : InCloseOrder(ReleasesOf(n)))
    /\ [][in_flight' = in_flight]_vars

\* A close() called while an error was on its way out has had a release
\* step raise after an earlier one succeeded, and has returned
C32_Witness ==
    /\ Len(close_log) >= 1
    /\ in_flight # "None"
    /\ close_log[1].outcome = "returned"
    /\ Len(ReleasesOf(1)) = 2
    /\ ReleasesOf(1)[1].handle = PAGE /\ ReleasesOf(1)[1].ok
    /\ ReleasesOf(1)[2].handle = CONTEXT /\ ~ReleasesOf(1)[2].ok

\* The call's release step that raised, if any
FailedIn(n) == {i \in 1..Len(ReleasesOf(n)) : ~ReleasesOf(n)[i].ok}

\* C40: close() stops at the first release step that fails: that step is the
\* last one of the call, and the handle of the failed step and of every
\* later step is after the call what it was before; all four handles are
\* None after a close() only when none of its release steps failed; a
\* close() on an agent whose four handles are None performs no release.
C40_CloseStopsAtFirstFailure ==
    \A n \in 1..Len(close_log) :
        LET rs == ReleasesOf(n)
            call == close_log[n]
        IN  /\ \A i \in FailedIn(n) :
                  /\ i = Len(rs)
                  /\ \A k \in 1..4 :
                        StepIndexOfHandle(k) >= StepIndexOfHandle(rs[i].handle)
                            => call.after[k] = call.before[k]
                  /\ call.after[rs[i].handle]
            /\ (\A k \in 1..4 : ~call.after[k]) => FailedIn(n) = {}
            /\ (\A k \in 1..4 : ~call.before[k]) => rs = <<>>

\* The first close() failed at the context, leaving context, browser and
\* driver set; the second one released them all; the third found nothing
\* to release
C40_Witness ==
    /\ Len(close_log) = 3
    /\ FailedIn(1) = {2}
    /\ ~close_log[1].after[PAGE]
    /\ close_log[1].after[CONTEXT] /\ close_log[1].after[BROWSER]
    /\ close_log[1].after[PLAYWRIGHT]
    /\ \A k \in 1..4 : ~close_log[2].after[k]
    /\ Len(ReleasesOf(2)) = 3
    /\ \A k \in 1..4 : ~close_log[3].before[k]
    /\ ReleasesOf(3) = <<>>


\* ---------------------------------------------------------- process_sellers
\* C33: at most one unit is inside fetch_seller_products at any time: the
\* scraper lock is held exactly while one fetch is in flight, and the unit
\* holding it holds one of the semaphore permits that are out.
C33_OneFetchAtATime ==
    /\ Cardinality(Fetching) <= 1
    /\ scraper_lock <=> Fetching # {}
    /\ Fetching \subseteq Admitted
    /\ MAX_CONCURRENT_SELLERS - semaphore >= Cardinality(Fetching)

\* One fetch in flight while two admitted units wait for the lock
C33_Witness ==
    /\ Cardinality(Fetching) = 1
    /\ Cardinality({u \in Units : upc[u] = "admitted"}) = MAX_CONCURRENT_SELLERS - 1
    /\ \E u \in Units : fetched[u] # "pending"

C35_OtherErrorPropagates ==
    /\ (\E u \in Units : fetched[u] \in OtherErrors) => ppc # "returned"
    /\ ppc = "raised" =>
          /\ \E u \in Units : fetched[u] \in OtherErrors
          /\ retval = NoValue

\* process_sellers has raised after one seller succeeded, while one fetch is
\* in flight and one unit has not started
C35_Witness ==
    /\ ppc = "raised"
    /\ \E u \in Units : fetched[u] = "ok"
    /\ \E u \in Units : upc[u] = "fetching"
    /\ \E u \in Units : upc[u] = "start"


\* ------------------------------------------------------------------ login()
\* The error a login() raises when its third attempt ended this way
RaisedAfter(failure) ==
    IF failure = "TimeoutError" THEN "TimeoutError" ELSE "LoginError"

C37_SessionIsNeverDeleted ==
    /\ [](\A svc \in Services : <<"delete_session", svc>> \notin store_access)
    /\ [][session_file' # session_file =>
             /\ lpc = "validate"
             /\ login_result' = "True" /\ success_via' = "fresh"
             /\ Len(save_calls') = Len(save_calls) + 1]_vars
    /\ [][lpc = "attempt_start" /\ lpc' # "done"
             /\ session_exists(ServiceName(agent)) => lpc' = "restore"]_vars
    /\ [][lpc = "restore" =>
             <<"load_session", ServiceName(agent)>> \in store_access']_vars

\* The aggregator agent restores the stored session in its third attempt,
\* after the restored session failed validation in the first two
C37_Witness ==
    /\ agent = "rapras"
    /\ attempts_started = 3
    /\ lpc = "restore_validate"
    /\ session_file["rapras"] = "c1"
    /\ ctx_cookies = "c1"
    /\ Len(close_calls) = 2
    /\ Len(failures) = 2


\* ------------------------------------------------------ the agents in main
\* C38: in main no step of login() is executed on the marketplace agent: no
\* proxy check, no session access, no credential or SMS step; its browser
\* does not exist before the first attempt of the first
\* fetch_seller_products call and is launched only by a fetch call that
\* finds no page; every fetch navigates with a page, and every record is
\* fetched while that agent's login() has not run.
C38_MarketplaceLoginNeverRuns ==
    /\ [](agent = "yahoo" =>
            /\ lpc = "call" /\ login_result = "running"
            /\ attempts_started = 0 /\ proxy_checks = 0 /\ session_checks = 0
            /\ proxy_obs = NoProxyObs
            /\ entry_call = {} /\ store_access = {} /\ save_calls = <<>>
            /\ (Settled = {} /\ fetch_started = 0 => handles = NoHandles)
            /\ (fpc \in {"f_goto", "f_extract"} => handles[PAGE]))
    /\ [][agent = "yahoo" /\ handles' # handles =>
             fpc = "f_launch" /\ ~handles[PAGE]]_vars

\* The first seller's record was fetched and the second fetch navigates with
\* the page the first one launched, with no login() of the agent
C38_Witness ==
    /\ agent = "yahoo"
    /\ lpc = "call"
    /\ Len(seller_links) >= 2
    /\ fetched[1] = "ok"
    /\ upc[2] = "fetching"
    /\ fpc = "f_goto" /\ fetch_started = 1
    /\ handles[PAGE]


\* ---------------------------------------------- classification in main
\* The failures of the tool that is_anime_title converts
Converted == {"CalledProcessError", "TimeoutExpired"}

\* C39: is_anime_title turns a non-zero exit and a timeout of the tool, and
\* nothing else, into the classification error filter_sellers skips; any
\* other failure ends filter_sellers with that exception: the seller being
\* checked and the sellers after it are not classified, and main ends with
\* that exception after the intermediate export has returned and without
\* the final export having begun.
C39_OtherToolFailureEndsMain ==
    /\ \A e \in ToolErrors :
          /\ e \in Converted => RaisedByIsAnimeTitle(e) = "GeminiAPIError"
          /\ e \notin Converted => RaisedByIsAnimeTitle(e) = e
          /\ FilterCatches(RaisedByIsAnimeTitle(e)) <=> e \in Converted
    /\ filter_result \notin {"running", "returned"} =>
          /\ filter_result \in ToolErrors \ Converted
          /\ apc = "done"
          /\ Len(filtered) = si - 1
          /\ tool_calls # <<>> /\ tool_calls[Len(tool_calls)] = ti
          /\ Len(verdicts) = ti - 1
          /\ mpc \in {"filter_wait", "finally_rapras", "finally_yahoo", "done"}
          /\ mpc # "filter_wait" => main_error = filter_result
          /\ mpc = "done" => main_result = filter_result
          /\ \E i \in 1..Len(step_log) :
                step_log[i] = Event("export_intermediate", "end")
          /\ \A i \in 1..Len(step_log) : step_log[i].step # "export_final"
    /\ mpc = "done" /\ main_result \in ToolErrors =>
          /\ filter_result = main_result
          /\ step_log[Len(step_log)] = Event("filter", "raise")

\* main has ended with FileNotFoundError raised at the second title of the
\* first of two sellers, after a timeout of the tool at the first title
C39_Witness ==
    /\ mpc = "done"
    /\ main_result = "FileNotFoundError"
    /\ Len(sellers) = 2
    /\ si = 1 /\ ti = 2
    /\ verdicts = <<"GeminiAPIError">>
    /\ filtered = <<>>

====
